---- MODULE Spec2Model ----
(***************************************************************************)
(* Trace analytics and street-graph engine of hiveline (Go).               *)
(*                                                                         *)
(* Four state machines share this module:                                 *)
(*   SpecTrace  the pure per-trace functions filterTrace, downSampleTrace  *)
(*   SpecPar    one parallel step (filterTracesByBounds, downSampleTraces, *)
(*              matchTraces): a driver, W worker goroutines, the done      *)
(*              channel and the preallocated output slice                  *)
(*   SpecCache  getResults: the filesystem cache in front of the           *)
(*              route-results collection of the document store             *)
(*   SpecMongo  saveToMongo: the trace-graphs and trace-arcs collections   *)
(*                                                                         *)
(* Coordinates are integers in units of half a degree, so the unit box     *)
(* [0,1]x[0,1] is [0,2]x[0,2] and the point (-0.5, 0.5) is <<-1, 1>>.       *)
(***************************************************************************)
EXTENDS Integers, Sequences, FiniteSets, Bags, TLC

VARIABLES
    \* ---- SpecTrace: one application of a per-trace function
    trace,        \* the input Trace
    boundary,     \* the Bounds handed to filterTrace
    targetCount,  \* the target size handed to downSampleTrace
    result,       \* the Trace returned by the last call
    called,       \* "none" | "filterTrace" | "downSampleTrace"
    \* ---- SpecPar: one parallel step
    step,         \* "idle" | "filter" | "downsample" | "match"
    traces,       \* the input slice
    threadCount,  \* number of workers W of the step
    outSlots,     \* the preallocated output slice; Unset until written
    writers,      \* history: for each slot, the workers that wrote it, in order
    wpc,          \* worker -> "unspawned" | "loop" | "exited"
    wj,           \* worker -> its loop variable j
    done,         \* number of values buffered in the done channel
    dpc,          \* driver: "spawn" | "wait" | "returned"
    di,           \* driver's loop variable i (spawn loop, then receive loop)
    \* ---- SpecStore: cache files and the document store
    files,        \* filesystem: path -> NoFile | "dir" | file content
    routeResults, \* store: simId -> the route-results documents of that simulation
    traceGraphs,  \* store: the bag of trace-graphs documents
    traceArcs,    \* store: the bag of trace-arcs documents
    lastCall,     \* what the last getResults / saveToMongo call did and returned
    \* ---- one application of a function of the analysis (statistics,
    \*      selection, traffic graph, clustering)
    fn,           \* "none" or the name of the function applied
    args,         \* its arguments
    ret           \* what it returned, or that it panicked

vars == <<trace, boundary, targetCount, result, called,
          step, traces, threadCount, outSlots, writers, wpc, wj, done, dpc, di,
          files, routeResults, traceGraphs, traceArcs, lastCall,
          fn, args, ret>>

traceVars == <<trace, boundary, targetCount, result, called>>
parVars   == <<step, traces, threadCount, outSlots, writers, wpc, wj, done, dpc, di>>
storeVars == <<files, routeResults, traceGraphs, traceArcs, lastCall>>
callVars  == <<fn, args, ret>>

(***************************************************************************)
(* Bounds of the model.                                                    *)
(***************************************************************************)
MaxLen == 3          \* longest trace drawn as an input
MaxTarget == 2       \* largest targetCount drawn as an input
MaxTraces == 3       \* longest input slice of a parallel step
MaxThreadCount == 3  \* largest number of workers of a parallel step
MaxCalls == 2        \* number of getResults calls in a run of SpecCache
MaxRuns == 2         \* number of saveToMongo runs in a run of SpecMongo

(***************************************************************************)
(* Small helpers.                                                          *)
(***************************************************************************)
Range(s) == {s[i] : i \in 1..Len(s)}

SeqsUpTo(S, n) == UNION {[1..k -> S] : k \in 0..n}

RECURSIVE SelectIdx(_, _, _)
\* the subsequence of s at the indices i (1-based, ascending) with Keep(i)
SelectIdx(s, Keep(_), i) ==
    IF i > Len(s) THEN <<>>
    ELSE (IF Keep(i) THEN <<s[i]>> ELSE <<>>) \o SelectIdx(s, Keep, i + 1)

(***************************************************************************)
(* Geometry: Bounds.Contains.                                              *)
(***************************************************************************)
\* orb.Bound.Contains: inclusive on all four sides
BoundContains(b, p) ==
    /\ b.Min[1] <= p[1] /\ p[1] <= b.Max[1]
    /\ b.Min[2] <= p[2] /\ p[2] <= b.Max[2]

\* planar.PolygonContains for polygons whose rings are axis-aligned rectangles:
\* inside the outer ring and in none of the holes
PolygonContains(geometry, p) ==
    /\ BoundContains(geometry[1], p)
    /\ \A h \in 2..Len(geometry) : ~BoundContains(geometry[h], p)

\* PolyBounds.Contains: bounding-box pre-check, then the polygon test
PolyBoundsContains(b, p) ==
    IF ~BoundContains(b.Bounds, p) THEN FALSE
    ELSE PolygonContains(b.Geometry, p)

\* MultiPolyBounds.Contains: some polygon contains the point
MultiPolyBoundsContains(b, p) ==
    \E i \in 1..Len(b) : PolyBoundsContains(b[i], p)

Rect(x0, y0, x1, y1) == [Min |-> <<x0, y0>>, Max |-> <<x1, y1>>]

\* getPolyBounds: the polygon with its bounding box
getPolyBounds(poly) == [Geometry |-> poly, Bounds |-> poly[1]]

UnitBox == getPolyBounds(<<Rect(0, 0, 2, 2)>>)
\* a second polygon east of the unit box, with a hole around (4, 1)
EastBox == getPolyBounds(<<Rect(3, 0, 5, 2), Rect(4, 0, 5, 2)>>)

Boundaries == {<<UnitBox>>, <<UnitBox, EastBox>>}

(***************************************************************************)
(* Traces.                                                                 *)
(***************************************************************************)
Points == {<<-1, 1>>, <<1, 1>>, <<3, 1>>}
Modes == {"walking", "car"}

\* TraceElement; Time is the element's position in the extracted trace
TraceElement(p, t, m, ls) == [Point |-> p, Time |-> t, Mode |-> m, IsLegStart |-> ls]

Trace(vc, opt, elems) == [VcId |-> vc, RouteOptionId |-> opt, Trace |-> elems]

ElementsAt(t) == {TraceElement(p, t, m, ls) : p \in Points, m \in Modes, ls \in BOOLEAN}

ElemSeqs(n) ==
    UNION {{s \in [1..k -> UNION {ElementsAt(t) : t \in 1..k}] :
               \A i \in 1..k : s[i].Time = i} : k \in 0..n}

InputTraces == {Trace("vc1", "opt1", s) : s \in ElemSeqs(MaxLen)}

(***************************************************************************)
(* filterTrace (traces.go).                                                *)
(***************************************************************************)
\* the containment bitmap of the first loop
containsBitmap(tr, b) == [i \in 1..Len(tr.Trace) |-> MultiPolyBoundsContains(b, tr.Trace[i].Point)]

\* mutant of contAt: the dilation reaches two positions instead of one
contAtWider(contains, i, n) ==
    \/ contains[i]
    \/ \E d \in {-2, -1, 1, 2} : i + d \in 1..n /\ contains[i + d]

\* mutant of contAt: the test of the predecessor is missing
contAtNoPredecessor(contains, i, n) ==
    LET c0 == contains[i]
        c2 == IF i < n /\ contains[i + 1] /\ ~c0 THEN TRUE ELSE c0
    IN  c2

\* cont after the two neighbour tests of the second loop (i is 1-based)
contAt(contains, i, n) ==
    LET c0 == contains[i]
        c1 == IF i > 1 /\ contains[i - 1] /\ ~c0 THEN TRUE ELSE c0
        c2 == IF i < n /\ contains[i + 1] /\ ~c1 THEN TRUE ELSE c1
    IN  c2

RECURSIVE filterLoop(_, _, _, _, _)
\* the second loop from index i on, with the locals filtered and carryLegStart
filterLoop(elems, contains, i, filtered, carryLegStart) ==
    IF i > Len(elems) THEN filtered
    ELSE LET elem == elems[i]
             cont == contAt(contains, i, Len(elems))
         IN  IF cont
             THEN filterLoop(elems, contains, i + 1,
                     Append(filtered,
                            TraceElement(elem.Point, elem.Time, elem.Mode,
                                         elem.IsLegStart \/ carryLegStart)),
                     FALSE)
             ELSE filterLoop(elems, contains, i + 1, filtered,
                     IF elem.IsLegStart THEN TRUE ELSE carryLegStart)

\* mutant of filterTrace: a kept element keeps the leg-start flag it had in
\* the input
filterTraceNoCarry(tr, b) ==
    LET filtered == filterLoop(tr.Trace, containsBitmap(tr, b), 1, <<>>, FALSE)
    IN  Trace(tr.VcId, tr.RouteOptionId,
              [i \in 1..Len(filtered) |->
                  TraceElement(filtered[i].Point, filtered[i].Time, filtered[i].Mode,
                               tr.Trace[filtered[i].Time].IsLegStart)])

filterTrace(tr, b) ==
    Trace(tr.VcId, tr.RouteOptionId,
          filterLoop(tr.Trace, containsBitmap(tr, b), 1, <<>>, FALSE))

(***************************************************************************)
(* downSampleTrace (traces.go).                                            *)
(*                                                                         *)
(* ratio = targetCount / nonLegStartCount is a float64 and buildUp a sum   *)
(* of such floats.  The model keeps buildUp exactly, in units of           *)
(* 1/nonLegStartCount.  The rounded sum differs from the exact one by far  *)
(* less than one unit, so the test buildUp >= 1.0 can differ from the      *)
(* exact test only where the exact sum is exactly 1: there the outcome is  *)
(* the rounding's, and roundsDown is the set of positions at which the     *)
(* rounded sum falls just short of 1.0.                                    *)
(***************************************************************************)
\* mutant of nonLegStartCount: counts the leg-start elements
nonLegStartCountOfLegStarts(elems) == Cardinality({i \in 1..Len(elems) : elems[i].IsLegStart})

nonLegStartCount(elems) == Cardinality({i \in 1..Len(elems) : ~elems[i].IsLegStart})

RECURSIVE downSampleLoopBudgetsAll(_, _, _, _, _, _, _)
\* mutant of downSampleLoop: leg-start elements go through the budget too
downSampleLoopBudgetsAll(elems, target, k, roundsDown, i, downSampled, buildUp) ==
    IF i > Len(elems) THEN downSampled
    ELSE LET elem == elems[i]
             b == buildUp + target
             reached == b > k \/ (b = k /\ i \notin roundsDown)
         IN  IF reached
             THEN downSampleLoopBudgetsAll(elems, target, k, roundsDown, i + 1,
                                           Append(downSampled, elem), b - k)
             ELSE downSampleLoopBudgetsAll(elems, target, k, roundsDown, i + 1,
                                           downSampled, b)

RECURSIVE downSampleLoop(_, _, _, _, _, _, _)
\* the loop over the trace from index i on, with the locals downSampled and buildUp
downSampleLoop(elems, target, k, roundsDown, i, downSampled, buildUp) ==
    IF i > Len(elems) THEN downSampled
    ELSE LET elem == elems[i]
             b == buildUp + target
             reached == b > k \/ (b = k /\ i \notin roundsDown)
         IN  IF elem.IsLegStart
             THEN downSampleLoop(elems, target, k, roundsDown, i + 1,
                                 Append(downSampled, elem), buildUp)
             ELSE IF reached
             THEN downSampleLoop(elems, target, k, roundsDown, i + 1,
                                 Append(downSampled, elem), b - k)
             ELSE downSampleLoop(elems, target, k, roundsDown, i + 1,
                                 downSampled, b)

\* mutant of downSampleTrace: the budget starts one ratio short of 1, so the
\* first non-leg-start element is emitted
downSampleTraceStartsFull(tr, target, roundsDown) ==
    IF Len(tr.Trace) <= target THEN tr
    ELSE IF nonLegStartCount(tr.Trace) <= target THEN tr
    ELSE Trace(tr.VcId, tr.RouteOptionId,
               downSampleLoop(tr.Trace, target, nonLegStartCount(tr.Trace),
                              roundsDown, 1, <<>>,
                              nonLegStartCount(tr.Trace) - target))

downSampleTrace(tr, target, roundsDown) ==
    IF Len(tr.Trace) <= target THEN tr
    ELSE IF nonLegStartCount(tr.Trace) <= target THEN tr
    ELSE Trace(tr.VcId, tr.RouteOptionId,
               downSampleLoop(tr.Trace, target, nonLegStartCount(tr.Trace),
                              roundsDown, 1, <<>>, 0))

(***************************************************************************)
(* SpecTrace: draw a trace, apply one per-trace function to it.            *)
(***************************************************************************)
NoTrace == Trace("", "", <<>>)

TraceIdle ==
    /\ trace = NoTrace /\ boundary = <<>> /\ targetCount = 0
    /\ result = NoTrace /\ called = "none"

ParIdle ==
    /\ step = "idle" /\ traces = <<>> /\ threadCount = 0
    /\ outSlots = <<>> /\ writers = <<>>
    /\ wpc = <<>> /\ wj = <<>> /\ done = 0 /\ dpc = "returned" /\ di = 0

StoreIdle ==
    /\ files = <<>> /\ routeResults = <<>>
    /\ traceGraphs = EmptyBag /\ traceArcs = EmptyBag /\ lastCall = <<>>

CallIdle == fn = "none" /\ args = <<>> /\ ret = <<>>

InitTrace ==
    /\ trace \in InputTraces
    /\ boundary = <<>>
    /\ targetCount = 0
    /\ result = NoTrace
    /\ called = "none"
    /\ ParIdle /\ StoreIdle /\ CallIdle

CallFilterTrace ==
    /\ called = "none"
    /\ \E b \in Boundaries :
          /\ boundary' = b
          /\ result' = filterTrace(trace, b)
    /\ called' = "filterTrace"
    /\ UNCHANGED <<trace, targetCount, parVars, storeVars, callVars>>

CallDownSampleTrace ==
    /\ called = "none"
    /\ \E n \in 0..MaxTarget, roundsDown \in SUBSET (1..Len(trace.Trace)) :
          /\ targetCount' = n
          /\ result' = downSampleTrace(trace, n, roundsDown)
    /\ called' = "downSampleTrace"
    /\ UNCHANGED <<trace, boundary, parVars, storeVars, callVars>>

NextTrace == CallFilterTrace \/ CallDownSampleTrace

SpecTrace == InitTrace /\ [][NextTrace]_vars

(***************************************************************************)
(* Claims about filterTrace and downSampleTrace, checked under SpecTrace.  *)
(***************************************************************************)
\* what identifies an element apart from its leg-start flag
Ident(e) == [Point |-> e.Point, Time |-> e.Time, Mode |-> e.Mode]

Idents(elems) == [i \in 1..Len(elems) |-> Ident(elems[i])]

PointsOf(elems) == [i \in 1..Len(elems) |-> elems[i].Point]

\* element i of the input lies in the boundary (FALSE outside the index range)
Inside(i) ==
    /\ i \in 1..Len(trace.Trace)
    /\ MultiPolyBoundsContains(boundary, trace.Trace[i].Point)

KeptByRule(i) == Inside(i) \/ Inside(i - 1) \/ Inside(i + 1)

\* C8: filterTrace returns, in input order, exactly the elements that are
\* contained in the boundary or whose immediate predecessor or successor
\* (index +-1, no wider) is contained; the output is never longer than the input.
C8_FilterKeepsContainedAndNeighbours ==
    called = "filterTrace" =>
        /\ Idents(result.Trace) = Idents(SelectIdx(trace.Trace, KeptByRule, 1))
        /\ Len(result.Trace) <= Len(trace.Trace)
        /\ result.VcId = trace.VcId /\ result.RouteOptionId = trace.RouteOptionId

\* a call that keeps an outside element next to an inside one and drops an
\* outside element two positions away from the only inside one
C8_Witness ==
    /\ called = "filterTrace"
    /\ Len(trace.Trace) = 3
    /\ Inside(1) /\ ~Inside(2) /\ ~Inside(3)
    /\ Len(result.Trace) = 2

S3Trace ==
    Trace("vc1", "opt1",
          << TraceElement(<<-1, 1>>, 1, "walking", TRUE),
             TraceElement(<<1, 1>>, 2, "walking", TRUE),
             TraceElement(<<3, 1>>, 3, "walking", FALSE) >>)

S3Called == called = "filterTrace" /\ trace = S3Trace /\ boundary = <<UnitBox>>

\* C9 as stated: in scenario S3 (unit box; points (-0.5,0.5), (0.5,0.5),
\* (1.5,0.5)) filterTrace keeps the first two points and drops (1.5,0.5).
C9_S3DropsExit ==
    S3Called => PointsOf(result.Trace) = << <<-1, 1>>, <<1, 1>> >>

\* C9 amended: in scenario S3 filterTrace keeps all three points; (1.5,0.5)
\* is kept because its immediate predecessor (0.5,0.5) is inside.
C9_S3KeepsAllThree ==
    S3Called => PointsOf(result.Trace) = << <<-1, 1>>, <<1, 1>>, <<3, 1>> >>

C9_Witness == S3Called /\ Len(result.Trace) = 3

RECURSIVE IsSubsequence(_, _)
\* a is b with some elements removed, order kept
IsSubsequence(a, b) ==
    IF a = <<>> THEN TRUE
    ELSE IF b = <<>> THEN FALSE
    ELSE IF Head(a) = Head(b) THEN IsSubsequence(Tail(a), Tail(b))
    ELSE IsSubsequence(a, Tail(b))

LegStarts(elems) == SelectSeq(elems, LAMBDA e : e.IsLegStart)

\* C10: for every trace and every target size N, downSampleTrace keeps all
\* leg-start elements and returns an order-preserving subsequence of the input.
C10_DownSampleKeepsLegStarts ==
    called = "downSampleTrace" =>
        /\ LegStarts(result.Trace) = LegStarts(trace.Trace)
        /\ IsSubsequence(result.Trace, trace.Trace)

\* a call that drops elements of a trace holding leg-starts and keeps them all
C10_Witness ==
    /\ called = "downSampleTrace"
    /\ Len(result.Trace) < Len(trace.Trace)
    /\ Len(LegStarts(trace.Trace)) >= 1
    /\ Len(LegStarts(result.Trace)) < Len(result.Trace)

NonLegStarts(elems) == SelectSeq(elems, LAMBDA e : ~e.IsLegStart)

\* C11: downSampleTrace(trace, N): if the number k of non-leg-start elements
\* is at most N the trace is returned unchanged; otherwise the output holds
\* at most N non-leg-start elements.
C11_DownSampleWithinTarget ==
    called = "downSampleTrace" =>
        IF Len(NonLegStarts(trace.Trace)) <= targetCount
        THEN result = trace
        ELSE Len(NonLegStarts(result.Trace)) <= targetCount

\* a call with k > N >= 1 whose output holds exactly N non-leg-start elements
C11_Witness ==
    /\ called = "downSampleTrace"
    /\ targetCount >= 1
    /\ Len(NonLegStarts(trace.Trace)) > targetCount
    /\ Len(NonLegStarts(result.Trace)) = targetCount

(***************************************************************************)
(* SpecS4: scenario S4, downSampleTrace with N = 4 on the traces of 12     *)
(* elements of which 2 are leg-starts, at any two positions.               *)
(***************************************************************************)
S4Traces ==
    {Trace("vc1", "opt1",
           [i \in 1..12 |-> TraceElement(<<1, 1>>, i, "walking", i \in ls)]) :
        ls \in {x \in SUBSET (1..12) : Cardinality(x) = 2}}

InitS4 ==
    /\ trace \in S4Traces
    /\ boundary = <<>>
    /\ targetCount = 0
    /\ result = NoTrace
    /\ called = "none"
    /\ ParIdle /\ StoreIdle /\ CallIdle

CallDownSampleTraceS4 ==
    /\ called = "none"
    /\ \E roundsDown \in SUBSET {i \in 1..Len(trace.Trace) : ~trace.Trace[i].IsLegStart} :
          result' = downSampleTrace(trace, 4, roundsDown)
    /\ targetCount' = 4
    /\ called' = "downSampleTrace"
    /\ UNCHANGED <<trace, boundary, parVars, storeVars, callVars>>

NextS4 == CallDownSampleTraceS4

SpecS4 == InitS4 /\ [][NextS4]_vars

\* position of a non-leg-start element among the non-leg-starts of the input
OrdinalOf(e) ==
    Cardinality({i \in 1..Len(trace.Trace) :
                    ~trace.Trace[i].IsLegStart /\ trace.Trace[i].Time <= e.Time})

\* the positions, among the input's non-leg-starts, of those the output keeps
KeptOrdinals == {OrdinalOf(e) : e \in Range(NonLegStarts(result.Trace))}

S4Called == called = "downSampleTrace" /\ trace \in S4Traces /\ targetCount = 4

\* C12 as stated: in scenario S4 (2 leg-starts, 10 non-leg-starts, N = 4)
\* downSampleTrace keeps both leg-starts and, among the non-leg-starts, the
\* first and then every third one.
C12_S4FirstAndEveryThird ==
    S4Called =>
        /\ LegStarts(result.Trace) = LegStarts(trace.Trace)
        /\ KeptOrdinals = {1, 4, 7, 10}

\* C12 amended: in scenario S4 downSampleTrace keeps both leg-starts and,
\* among the non-leg-starts, those at which the running budget reaches 1:
\* the 3rd, 5th, 8th and 10th (never the first).  At the 5th and the 10th
\* the budget is exactly 1, so a sum rounded just below 1 moves the 5th to
\* the 6th and drops the 10th.
C12_S4BudgetIndices ==
    S4Called =>
        /\ LegStarts(result.Trace) = LegStarts(trace.Trace)
        /\ KeptOrdinals \in {{3, 5, 8, 10}, {3, 5, 8}, {3, 6, 8, 10}, {3, 6, 8}}

\* the exact walk on a trace whose leg-starts are the 1st and the 7th element
C12_Witness ==
    /\ S4Called
    /\ trace.Trace[1].IsLegStart /\ trace.Trace[7].IsLegStart
    /\ KeptOrdinals = {3, 5, 8, 10}
    /\ Len(result.Trace) = 6

(***************************************************************************)
(* Map matching: snapping a trace to street nodes (getNodeOptionTrace).    *)
(***************************************************************************)
StreetGraphNode(id, p) == [Id |-> id, Point |-> p]

StreetGraphEdgePointer(from, to, p) == [From |-> from, To |-> to, Point |-> p]

\* planar.DistanceSquared
DistanceSquared(p, q) == (p[1] - q[1]) * (p[1] - q[1]) + (p[2] - q[2]) * (p[2] - q[2])

\* a street graph of two nodes joined by one edge; NodeTree holds the nodes and
\* the edge's sample points (its two ends and one point in between)
StreetGraph ==
    [Nodes |-> [id \in {0, 1} |-> StreetGraphNode(id, IF id = 0 THEN <<-1, 1>> ELSE <<4, 1>>)],
     NodeTree |-> {[kind |-> "node", node |-> StreetGraphNode(0, <<-1, 1>>), Point |-> <<-1, 1>>],
                   [kind |-> "node", node |-> StreetGraphNode(1, <<4, 1>>), Point |-> <<4, 1>>],
                   [kind |-> "edge", edge |-> StreetGraphEdgePointer(0, 1, <<-1, 1>>), Point |-> <<-1, 1>>],
                   [kind |-> "edge", edge |-> StreetGraphEdgePointer(0, 1, <<2, 1>>), Point |-> <<2, 1>>],
                   [kind |-> "edge", edge |-> StreetGraphEdgePointer(0, 1, <<4, 1>>), Point |-> <<4, 1>>]}]

\* the sentinel id of an element nothing was matched to: uint32(math.MaxUint32),
\* the 32-bit pattern of all ones, written here as the signed value of that pattern
noNode == -1

\* NodeTree.KNN(elem, 1): the stored points nearest to p; the tree returns one
\* of them, and none when it is empty
KNN1(tree, p) ==
    {e \in tree : \A f \in tree : DistanceSquared(p, e.Point) <= DistanceSquared(p, f.Point)}

\* the id an element is snapped to when the tree returns entry e
snappedId(sg, p, e) ==
    IF e.kind = "node" THEN e.node.Id
    ELSE LET fromDist == DistanceSquared(p, sg.Nodes[e.edge.From].Point)
             toDist == DistanceSquared(p, sg.Nodes[e.edge.To].Point)
         IN  IF fromDist < toDist THEN e.edge.From ELSE e.edge.To

\* the ids one element may be snapped to
nodeOptions(sg, p) ==
    IF KNN1(sg.NodeTree, p) = {} THEN {noNode}
    ELSE {snappedId(sg, p, e) : e \in KNN1(sg.NodeTree, p)}

\* getNodeOptionTrace: the possible snapped id sequences of a trace
getNodeOptionTrace(tr, sg) ==
    {s \in [1..Len(tr.Trace) -> UNION {nodeOptions(sg, tr.Trace[i].Point) : i \in 1..Len(tr.Trace)}] :
        \A i \in 1..Len(tr.Trace) : s[i] \in nodeOptions(sg, tr.Trace[i].Point)}

(***************************************************************************)
(* SpecPar: one parallel step.  The three drivers filterTracesByBounds,    *)
(* downSampleTraces and matchTraces have the same shape: preallocate the   *)
(* output, start threadCount goroutines that stride over the input and     *)
(* send on done, receive threadCount values, return the output.            *)
(*                                                                         *)
(* The number of workers is the parameter threadCount of matchTraces and   *)
(* the local theadCount (set to 12) of the other two.  A step depends on   *)
(* it only through the two loop bounds, the stride and the channel         *)
(* capacity below, so the model draws it from 1..MaxThreadCount for all    *)
(* three steps, and runs filterTracesByBounds and downSampleTraces with    *)
(* their 12 workers on the slices of one trace.                            *)
(***************************************************************************)
\* the worker count of filterTracesByBounds and downSampleTraces
theadCount == 12

\* the samples input slices are drawn from
ParTraces ==
    { Trace("vc1", "opt1",
            << TraceElement(<<-1, 1>>, 1, "car", TRUE),
               TraceElement(<<1, 1>>, 2, "car", FALSE),
               TraceElement(<<3, 1>>, 3, "car", FALSE),
               TraceElement(<<3, 1>>, 4, "car", FALSE) >>),
      Trace("vc2", "opt2",
            << TraceElement(<<3, 1>>, 1, "car", TRUE),
               TraceElement(<<1, 1>>, 2, "car", FALSE) >>) }

\* worker counts and input slices within the bounds
BoundedInputs ==
    {[W |-> W, traces |-> ts] : W \in 1..MaxThreadCount, ts \in SeqsUpTo(ParTraces, MaxTraces)}

\* the worker counts and input slices a step is started with: the bounded ones
\* and, for the two steps that fix 12 workers, 12 workers on a slice of one trace
ParInputs(kind) ==
    BoundedInputs
    \cup (IF kind = "match" THEN {}
          ELSE {[W |-> theadCount, traces |-> <<tr>>] : tr \in ParTraces})

\* the arguments the steps pass on to the per-trace operation
ParBoundary == <<UnitBox>>
ParTargetCount == 1

\* the results the per-trace operation of a step can return for one trace
PerTraceOp(kind, tr) ==
    CASE kind = "filter" -> {filterTrace(tr, ParBoundary)}
      [] kind = "downsample" ->
            {downSampleTrace(tr, ParTargetCount, rd) : rd \in SUBSET (1..Len(tr.Trace))}
      [] kind = "match" ->
            {[i \in 1..Len(m) |-> StreetGraph.Nodes[m[i]]] : m \in getNodeOptionTrace(tr, StreetGraph)}

\* PerTraceOp tabulated over the samples
PerTraceTable ==
    [kind \in {"filter", "downsample", "match"} |-> [tr \in ParTraces |-> PerTraceOp(kind, tr)]]

PerTraceResults(kind, tr) == PerTraceTable[kind][tr]

\* the zero value a slot of the preallocated output holds
ZeroSlot(kind) == IF kind = "match" THEN <<>> ELSE NoTrace

\* mutant of doneCapacity: the channel is one short of the worker count
doneCapacityShort(W) == W - 1

\* capacity of the done channel: make(chan bool, threadCount)
doneCapacity(W) == W

\* the first index of worker i: j := i
firstJ(i) == i

\* mutant of nextJ: the worker walks every index instead of striding
nextJUnit(j, W) == j + 1

\* the stride of a worker: j += threadCount
nextJ(j, W) == j + W

\* mutant of receiveCount: the driver stops one receive early
receiveCountShort(W) == W - 1

\* the number of values the driver receives before it returns
receiveCount(W) == W

Workers == 0..(threadCount - 1)

StartStep(kind, in) ==
    /\ step = kind
    /\ threadCount = in.W
    /\ traces = in.traces
    /\ boundary = (IF kind = "filter" THEN ParBoundary ELSE <<>>)
    /\ targetCount = (IF kind = "downsample" THEN ParTargetCount ELSE 0)
    /\ outSlots = [j \in 1..Len(in.traces) |-> ZeroSlot(kind)]
    /\ writers = [j \in 1..Len(in.traces) |-> <<>>]
    /\ wpc = [w \in 0..(in.W - 1) |-> "unspawned"]
    /\ wj = [w \in 0..(in.W - 1) |-> 0]
    /\ done = 0
    /\ dpc = "spawn"
    /\ di = 0
    /\ trace = NoTrace /\ result = NoTrace /\ called = "none"
    /\ StoreIdle /\ CallIdle

StepKinds == {"filter", "downsample", "match"}

InitPar == \E kind \in StepKinds : \E in \in ParInputs(kind) : StartStep(kind, in)

InitParBounded == \E kind \in StepKinds : \E in \in BoundedInputs : StartStep(kind, in)

\* the driver's first loop: go func(i int) {...}(i)
Spawn ==
    /\ dpc = "spawn"
    /\ di < threadCount
    /\ wpc' = [wpc EXCEPT ![di] = "loop"]
    /\ wj' = [wj EXCEPT ![di] = firstJ(di)]
    /\ IF di + 1 < threadCount
       THEN di' = di + 1 /\ dpc' = dpc
       ELSE di' = 0 /\ dpc' = "wait"
    /\ UNCHANGED <<step, traces, threadCount, outSlots, writers, done,
                   traceVars, storeVars, callVars>>

\* one iteration of a worker's loop: out[j] = op(traces[j]); j += threadCount
WorkerIteration(w) ==
    /\ wpc[w] = "loop"
    /\ wj[w] < Len(traces)
    /\ \E r \in PerTraceResults(step, traces[wj[w] + 1]) :
          outSlots' = [outSlots EXCEPT ![wj[w] + 1] = r]
    /\ writers' = [writers EXCEPT ![wj[w] + 1] = Append(@, w)]
    /\ wj' = [wj EXCEPT ![w] = nextJ(wj[w], threadCount)]
    /\ UNCHANGED <<step, traces, threadCount, wpc, done, dpc, di, traceVars, storeVars, callVars>>

\* the worker is at done <- true
AtSend(w) == wpc[w] = "loop" /\ wj[w] >= Len(traces)

\* done <- true: blocks while the channel is full
WorkerSend(w) ==
    /\ AtSend(w)
    /\ done < doneCapacity(threadCount)
    /\ done' = done + 1
    /\ wpc' = [wpc EXCEPT ![w] = "exited"]
    /\ UNCHANGED <<step, traces, threadCount, outSlots, writers, wj, dpc, di,
                   traceVars, storeVars, callVars>>

\* the driver's second loop: <-done, and the return after the last receive
Receive ==
    /\ dpc = "wait"
    /\ done > 0
    /\ done' = done - 1
    /\ IF di + 1 < receiveCount(threadCount)
       THEN di' = di + 1 /\ dpc' = dpc
       ELSE di' = di + 1 /\ dpc' = "returned"
    /\ UNCHANGED <<step, traces, threadCount, outSlots, writers, wpc, wj,
                   traceVars, storeVars, callVars>>

Worker(w) == w \in Workers /\ (WorkerIteration(w) \/ WorkerSend(w))

NextPar ==
    \/ Spawn
    \/ Receive
    \/ \E w \in Workers : WorkerIteration(w)
    \/ \E w \in Workers : WorkerSend(w)

SpecPar == InitPar /\ [][NextPar]_vars

\* The Go scheduler runs every runnable goroutine eventually: the driver and
\* each worker are weakly fair.  Started with the bounded inputs.
SpecParFair ==
    /\ InitParBounded
    /\ [][NextPar]_vars
    /\ WF_vars(Spawn \/ Receive)
    /\ \A w \in 0..(MaxThreadCount - 1) : WF_vars(Worker(w))

(***************************************************************************)
(* Claims about the parallel steps, checked under SpecPar / SpecParFair.   *)
(***************************************************************************)
AllExited == \A w \in Workers : wpc[w] = "exited"

\* C1: with W workers, trace j is processed only by worker j mod W and output
\* slot j is written exactly once; in no interleaving do two workers write the
\* same slot.  (Slot j of the code is index j + 1 here.)
C1_SlotOwnedByJModW ==
    \A j \in 0..(Len(traces) - 1) :
        /\ Len(writers[j + 1]) <= 1
        /\ \A k \in 1..Len(writers[j + 1]) : writers[j + 1][k] = j % threadCount
        /\ dpc = "returned" => Len(writers[j + 1]) = 1

\* a finished step in which one worker wrote two slots and another wrote one
C1_Witness ==
    /\ dpc = "returned"
    /\ threadCount = 2
    /\ Len(traces) = 3
    /\ writers = << <<0>>, <<1>>, <<0>> >>

\* C2: a parallel step returns only after all W workers have signalled, and at
\* return output[j] is the result of the per-trace operation on input[j] for
\* every j (order preserved, no slot unfilled), for any number of traces,
\* including 0 and fewer than W.
C2_ReturnsFilledInOrder ==
    dpc = "returned" =>
        /\ AllExited
        /\ Len(outSlots) = Len(traces)
        /\ \A j \in 1..Len(traces) :
              /\ writers[j] # <<>>
              /\ outSlots[j] \in PerTraceResults(step, traces[j])

\* a finished step with fewer traces than workers whose two outputs differ
C2_Witness ==
    /\ dpc = "returned"
    /\ Len(traces) = 2 /\ threadCount = 3
    /\ traces[1] # traces[2]
    /\ outSlots[1] # outSlots[2]
    /\ outSlots[1] # ZeroSlot(step)

\* no worker is blocked at its send
NoSendBlocks == \A w \in Workers : AtSend(w) => ENABLED WorkerSend(w)

\* the step is over: every worker has sent its one signal and left, the driver
\* has received threadCount signals and returned, nothing is left in the channel
StepOver == dpc = "returned" /\ AllExited /\ di = threadCount /\ done = 0

\* C3: every parallel step terminates without deadlock: each worker sends
\* exactly one completion signal on the channel of capacity W, no worker ever
\* blocks on that send, and the driver receives exactly W signals and returns.
C3_StepTerminates ==
    /\ [](NoSendBlocks /\ done <= threadCount)
    /\ <>[]StepOver

\* all workers have sent before the driver receives anything: the channel is full
C3_Witness ==
    /\ threadCount = 3
    /\ done = 3
    /\ dpc = "wait" /\ di = 0
    /\ AllExited

(***************************************************************************)
(* Route results and their JSON form (dbscan.go: RouteOption, RouteResult; *)
(* util.go: readJSON, writeJSON).                                          *)
(***************************************************************************)
SimIds == {"s1", "s2"}

\* RouteOption: the exported fields the cache keeps, and the unexported vcId
RouteOption(id, vc) == [RouteOptionId |-> id, vcId |-> vc]

RouteResult(doc, vc, sim, opts) == [DocId |-> doc, VcId |-> vc, SimId |-> sim, Options |-> opts]

\* the route-results a simulation may hold in the store, as decoded from it:
\* the unexported vcId is not part of a document and decodes to ""
StoredResults(sim) ==
    { <<>>,
      << RouteResult("d1", "vcA", sim, <<RouteOption("o1", ""), RouteOption("o2", "")>>) >>,
      << RouteResult("d1", "vcA", sim, <<RouteOption("o1", "")>>),
         RouteResult("d2", "vcB", sim, <<>>) >> }

\* mutant of marshalOption: the option id is left out of the JSON object
marshalOptionNoId(o) == [route_option_id |-> ""]

\* json.Marshal of a RouteOption: the tagged exported fields only
marshalOption(o) == [route_option_id |-> o.RouteOptionId]

\* json.Marshal of a RouteResult, by its json tags
marshalResult(r) ==
    [id |-> r.DocId, vc_id |-> r.VcId, sim_id |-> r.SimId,
     options |-> [i \in 1..Len(r.Options) |-> marshalOption(r.Options[i])]]

\* json.Marshal of the result slice: the content of a cache file
Marshal(results) == [kind |-> "json", json |-> [i \in 1..Len(results) |-> marshalResult(results[i])]]

\* json.Unmarshal into a RouteOption: vcId keeps its zero value
unmarshalOption(j) == RouteOption(j.route_option_id, "")

unmarshalResult(j) ==
    RouteResult(j.id, j.vc_id, j.sim_id,
                [i \in 1..Len(j.options) |-> unmarshalOption(j.options[i])])

NoFile == [kind |-> "none"]
Dir == [kind |-> "dir"]
\* a file that is no JSON document: truncated by a failed write, or foreign
Corrupt == [kind |-> "corrupt"]

\* readJSON: the error flag and the decoded value
readJSON(content) ==
    IF content.kind # "json"
    THEN [err |-> TRUE, value |-> <<>>]
    ELSE [err |-> FALSE,
          value |-> [i \in 1..Len(content.json) |-> unmarshalResult(content.json[i])]]

Cache == "./cache"

\* filepath.Dir(cacheFile)
cacheDir(cache) == <<cache, "hiveline-journeys">>

\* cache + "/hiveline-journeys/" + simId + ".json"
cacheFile(cache, simId) == <<cache, "hiveline-journeys", simId>>

Paths == {cacheDir(Cache)} \cup {cacheFile(Cache, sim) : sim \in SimIds}

\* mutant of cacheMiss: the cache is never consulted
cacheMissAlways(fileState) == TRUE

\* os.Stat(cacheFile) reports that the file does not exist
cacheMiss(fileState) == fileState = NoFile

\* writeJSON(path, results): the filesystem afterwards and the error flag.
\* fault "mkdir" fails MkdirAll, fault "write" fails WriteFile, which may
\* leave no file or a truncated one (leftover).
writeJSON(fs, dir, path, results, fault, leftover) ==
    IF fs[dir] = NoFile /\ fault = "mkdir" THEN [err |-> TRUE, files |-> fs]
    ELSE LET made == [fs EXCEPT ![dir] = Dir]
         IN  IF fault = "write"
             THEN [err |-> TRUE, files |-> [made EXCEPT ![path] = leftover]]
             ELSE [err |-> FALSE, files |-> [made EXCEPT ![path] = Marshal(results)]]

(***************************************************************************)
(* SpecCache: calls of getResults.                                         *)
(***************************************************************************)
GetResultsFaults == {"none", "connect", "find", "all", "mkdir", "write"}

NoCall == [op |-> "none", n |-> 0]

\* what a call record keeps of the call before it
Summary(call) ==
    IF call.op = "none" THEN [op |-> "none"]
    ELSE [op |-> call.op, simId |-> call.simId, source |-> call.source, err |-> call.err]

\* the record of the getResults call that follows the call prev
ResultsCall(prev, simId, source, storeOpened, err, panicked, results) ==
    [op |-> "getResults", n |-> prev.n + 1, prev |-> Summary(prev),
     simId |-> simId, source |-> source,
     storeOpened |-> storeOpened, err |-> err, panicked |-> panicked, results |-> results]

MongoIdle == traceGraphs = EmptyBag /\ traceArcs = EmptyBag

InitCache ==
    /\ routeResults \in {f \in [SimIds -> UNION {StoredResults(sim) : sim \in SimIds}] :
                            \A sim \in SimIds : f[sim] \in StoredResults(sim)}
    /\ files \in {f \in [Paths -> {NoFile, Dir, Corrupt}
                                  \cup {Marshal(rs) : rs \in UNION {StoredResults(sim) : sim \in SimIds}}] :
                     /\ f[cacheDir(Cache)] \in {NoFile, Dir}
                     /\ \A sim \in SimIds :
                           /\ f[cacheFile(Cache, sim)] # Dir
                           /\ f[cacheDir(Cache)] = NoFile => f[cacheFile(Cache, sim)] = NoFile
                           /\ f[cacheFile(Cache, sim)] \in {NoFile, Corrupt}
                                  \cup {Marshal(rs) : rs \in StoredResults(sim)}}
    /\ lastCall = NoCall
    /\ MongoIdle
    /\ TraceIdle /\ ParIdle /\ CallIdle

\* getResults(simId, cache) on a cache hit: the file is read, nothing else
GetResultsFromCache(simId) ==
    LET read == readJSON(files[cacheFile(Cache, simId)])
    IN  /\ lastCall' = ResultsCall(lastCall, simId, "cache", FALSE,
                                   read.err, FALSE, read.value)
        /\ UNCHANGED files

\* getResults(simId, cache) on a miss: connect, Find, cur.All, writeJSON
GetResultsFromStore(simId, fault, leftover) ==
    LET results == routeResults[simId]
        written == writeJSON(files, cacheDir(Cache), cacheFile(Cache, simId),
                             results, fault, leftover)
    IN  IF fault = "connect"
        THEN /\ lastCall' = ResultsCall(lastCall, simId, "store", FALSE, TRUE, TRUE, <<>>)
             /\ UNCHANGED files
        ELSE IF fault \in {"find", "all"}
        THEN /\ lastCall' = ResultsCall(lastCall, simId, "store", TRUE, TRUE, FALSE, <<>>)
             /\ UNCHANGED files
        ELSE /\ files' = written.files
             /\ lastCall' = ResultsCall(lastCall, simId, "store", TRUE, written.err, FALSE,
                                        IF written.err THEN <<>> ELSE results)

GetResults(simId, fault, leftover) ==
    /\ lastCall.n < MaxCalls
    /\ IF cacheMiss(files[cacheFile(Cache, simId)])
       THEN GetResultsFromStore(simId, fault, leftover)
       ELSE GetResultsFromCache(simId)
    /\ UNCHANGED <<routeResults, traceGraphs, traceArcs, traceVars, parVars, callVars>>

NextCache ==
    \E simId \in SimIds, fault \in GetResultsFaults, leftover \in {NoFile, Corrupt} :
        GetResults(simId, fault, leftover)

SpecCache == InitCache /\ [][NextCache]_vars

(***************************************************************************)
(* Claims about getResults, checked under SpecCache.                       *)
(***************************************************************************)
\* this step is a getResults call for sim
CallsGetResults(sim) ==
    /\ lastCall'.n = lastCall.n + 1
    /\ lastCall'.op = "getResults"
    /\ lastCall'.simId = sim

\* C4: whenever the cache file <cache>/hiveline-journeys/<simId>.json exists,
\* getResults reads the results from that file and the document store is
\* never opened or queried during the call.
C4_CacheHitBypassesStore ==
    [][\A sim \in SimIds :
          (CallsGetResults(sim) /\ files[cacheFile(Cache, sim)] # NoFile) =>
              /\ lastCall'.source = "cache"
              /\ ~lastCall'.storeOpened /\ ~lastCall'.panicked
              /\ lastCall'.err = readJSON(files[cacheFile(Cache, sim)]).err
              /\ lastCall'.results = readJSON(files[cacheFile(Cache, sim)]).value
              /\ files' = files /\ routeResults' = routeResults]_vars

\* a hit on a cache file whose results differ from the store's
C4_Witness ==
    /\ lastCall.op = "getResults"
    /\ lastCall.source = "cache" /\ ~lastCall.err
    /\ lastCall.results # <<>>
    /\ lastCall.results # routeResults[lastCall.simId]

\* the last call missed the cache and returned the store's results
ReturnedFromStore(call) == call.op = "getResults" /\ call.source = "store" /\ ~call.err

ArcVisitor(vc, opt) == [VcId |-> vc, RouteOptionId |-> opt]

\* Graph: Nodes by index 0.., Edges by from-index a map to -> visitors
Graph(mode, nodes, edges) == [Mode |-> mode, Nodes |-> nodes, Edges |-> edges]

NoArcs == [to \in {} |-> <<>>]

\* the graphs handed to saveToMongo: one without edges, one with one edge,
\* one with two edges leaving the same node, and a graph of another mode
Graphs ==
    { Graph("car", [n \in {0} |-> <<0, 0>>], [n \in {0} |-> NoArcs]),
      Graph("car", [n \in {0, 1} |-> <<n, 0>>],
            [n \in {0, 1} |-> IF n = 0 THEN [to \in {1} |-> <<ArcVisitor("vcA", "o1")>>]
                              ELSE NoArcs]),
      Graph("car", [n \in {0, 1, 2} |-> <<n, 0>>],
            [n \in {0, 1, 2} |->
                IF n = 0 THEN [to \in {1, 2} |->
                                 IF to = 1 THEN <<ArcVisitor("vcA", "o1"), ArcVisitor("vcB", "o2")>>
                                 ELSE <<ArcVisitor("vcB", "o2")>>]
                ELSE NoArcs]),
      Graph("bus", [n \in {0, 1} |-> <<n, 0>>],
            [n \in {0, 1} |-> IF n = 0 THEN [to \in {1} |-> <<ArcVisitor("vcB", "o2")>>]
                              ELSE NoArcs]) }

\* const visitorThreshold = 0
visitorThreshold == 0

\* the (from, to) pairs both loops of saveToMongo visit and keep
keptArcs(graph) ==
    {<<from, to>> \in UNION {{<<f, t>> : t \in DOMAIN graph.Edges[f]} : f \in DOMAIN graph.Edges} :
        ~(Len(graph.Edges[from][to]) < visitorThreshold)}

\* the orders in which a loop over graph.Edges can visit the kept pairs:
\* from ascending, the to of one from in the map's iteration order
arcOrders(graph) ==
    LET arcs == keptArcs(graph)
    IN  {s \in [1..Cardinality(arcs) -> arcs] :
            /\ \A i, k \in 1..Cardinality(arcs) : i # k => s[i] # s[k]
            /\ \A i, k \in 1..Cardinality(arcs) : i < k => s[i][1] <= s[k][1]}

MongoGraph(simId, graph, flattenedArcs) ==
    [simId |-> simId, mode |-> graph.Mode, nodes |-> graph.Nodes, edges |-> flattenedArcs]

MongoArc(simId, graph, from, to) ==
    [simId |-> simId, mode |-> graph.Mode, from |-> from, to |-> to,
     visitors |-> graph.Edges[from][to]]

\* the mongoArcs slice, as the set of its documents (one per kept pair)
mongoArcs(simId, graph) == {MongoArc(simId, graph, a[1], a[2]) : a \in keptArcs(graph)}

\* mutant of matchesFilter: the filter matches no document, nothing is deleted
matchesNothing(doc, simId, mode) == FALSE

\* the filter bson.M{"simId": simId, "mode": graph.Mode}
matchesFilter(doc, simId, mode) == doc.simId = simId /\ doc.mode = mode

\* the documents of a collection
Docs(coll) == BagToSet(coll)

\* DeleteMany(filter): the collection without the documents that match
DeleteMany(coll, simId, mode) ==
    LET kept == {d \in Docs(coll) : ~matchesFilter(d, simId, mode)}
    IN  [d \in kept |-> coll[d]]

\* InsertOne / InsertMany of a set of distinct documents
Insert(coll, docs) == coll (+) SetToBag(docs)

\* number of documents of a collection with the given simId and mode
CountOf(coll, simId, mode) ==
    BagCardinality([d \in {e \in Docs(coll) : e.simId = simId /\ e.mode = mode} |-> coll[d]])

(***************************************************************************)
(* SpecMongo: runs of saveToMongo.  A store operation can fail (fault); a  *)
(* failed operation may or may not have taken effect on the server         *)
(* (applied), a failed InsertMany may have inserted any part of its        *)
(* documents (part).  InsertMany of an empty slice fails in the driver     *)
(* before anything is sent.  Every failure panics.                         *)
(***************************************************************************)
SaveFaults == {"none", "connect", "deleteGraphs", "deleteArcs", "insertGraph", "insertArcs"}

SummaryOfSave(call) ==
    IF call.op = "none" THEN [op |-> "none"]
    ELSE [op |-> call.op, simId |-> call.simId, graph |-> call.graph, panicked |-> call.panicked]

SaveCall(prev, simId, graph, failed, panicked) ==
    [op |-> "saveToMongo", n |-> prev.n + 1, prev |-> SummaryOfSave(prev),
     simId |-> simId, graph |-> graph, failed |-> failed, panicked |-> panicked]

InitMongo ==
    /\ traceGraphs = EmptyBag
    /\ traceArcs = EmptyBag
    /\ lastCall = NoCall
    /\ files = <<>> /\ routeResults = <<>>
    /\ TraceIdle /\ ParIdle /\ CallIdle

\* the four store operations in order, up to the first that fails
SaveToMongo(simId, graph, fault, applied, part, flattenedArcs) ==
    LET mongoGraph == MongoGraph(simId, graph, flattenedArcs)
        arcs == mongoArcs(simId, graph)
        graphs1 == DeleteMany(traceGraphs, simId, graph.Mode)
        arcs1 == DeleteMany(traceArcs, simId, graph.Mode)
        graphs2 == Insert(graphs1, {mongoGraph})
        arcs2 == Insert(arcs1, arcs)
        Outcome(g, a, failed) ==
            /\ traceGraphs' = g
            /\ traceArcs' = a
            /\ lastCall' = SaveCall(lastCall, simId, graph, failed, failed # "none")
    IN  /\ lastCall.n < MaxRuns
        /\ CASE fault = "connect" -> Outcome(traceGraphs, traceArcs, "connect")
             [] fault = "deleteGraphs" ->
                   Outcome(IF applied THEN graphs1 ELSE traceGraphs, traceArcs, "deleteGraphs")
             [] fault = "deleteArcs" ->
                   Outcome(graphs1, IF applied THEN arcs1 ELSE traceArcs, "deleteArcs")
             [] fault = "insertGraph" ->
                   Outcome(IF applied THEN graphs2 ELSE graphs1, arcs1, "insertGraph")
             [] fault = "insertArcs" \/ arcs = {} ->
                   Outcome(graphs2, IF arcs = {} THEN arcs1 ELSE Insert(arcs1, part), "insertArcs")
             [] OTHER -> Outcome(graphs2, arcs2, "none")
        /\ UNCHANGED <<files, routeResults, traceVars, parVars, callVars>>

NextMongo ==
    \E simId \in SimIds, graph \in Graphs, fault \in SaveFaults, applied \in BOOLEAN :
        \E part \in SUBSET mongoArcs(simId, graph), flattenedArcs \in arcOrders(graph) :
            SaveToMongo(simId, graph, fault, applied, part, flattenedArcs)

SpecMongo == InitMongo /\ [][NextMongo]_vars

(***************************************************************************)
(* Claims about saveToMongo, checked under SpecMongo.                      *)
(***************************************************************************)
\* the edges of a graph: the (from, to) pairs that carry a visitor list
EdgesOf(graph) ==
    UNION {{<<f, t>> : t \in DOMAIN graph.Edges[f]} : f \in DOMAIN graph.Edges}

\* number of trace-arcs documents of (simId, mode) for the edge (from, to)
ArcDocsOf(simId, mode, from, to) ==
    BagCardinality([d \in {e \in Docs(traceArcs) :
                              /\ e.simId = simId /\ e.mode = mode
                              /\ e.from = from /\ e.to = to} |-> traceArcs[d]])

\* the store holds exactly the artifacts of one run of graph under simId
HoldsExactlyOneRun(simId, graph) ==
    /\ CountOf(traceGraphs, simId, graph.Mode) = 1
    /\ \A d \in Docs(traceGraphs) :
          (d.simId = simId /\ d.mode = graph.Mode) =>
              /\ d.nodes = graph.Nodes
              /\ Range(d.edges) = EdgesOf(graph) /\ Len(d.edges) = Cardinality(EdgesOf(graph))
    /\ CountOf(traceArcs, simId, graph.Mode) = Cardinality(EdgesOf(graph))
    /\ \A e \in EdgesOf(graph) : ArcDocsOf(simId, graph.Mode, e[1], e[2]) = 1
    /\ \A d \in Docs(traceArcs) :
          (d.simId = simId /\ d.mode = graph.Mode) =>
              /\ <<d.from, d.to>> \in EdgesOf(graph)
              /\ d.visitors = graph.Edges[d.from][d.to]

Succeeded(call) == call.op = "saveToMongo" /\ ~call.panicked

\* C6: saveToMongo deletes every trace-graphs and trace-arcs document of
\* (simId, mode) before it inserts, so runs are idempotent: after any number
\* of successful runs the store holds exactly one trace-graph document and
\* exactly one trace-arc document per edge for that (simId, mode).
C6_SaveIsIdempotent ==
    Succeeded(lastCall) => HoldsExactlyOneRun(lastCall.simId, lastCall.graph)

\* the second of two successful runs of the same two-edge graph
C6_Witness ==
    /\ Succeeded(lastCall)
    /\ lastCall.prev = [op |-> "saveToMongo", simId |-> lastCall.simId,
                        graph |-> lastCall.graph, panicked |-> FALSE]
    /\ Cardinality(EdgesOf(lastCall.graph)) = 2

\* the store holds no trace-graph and no trace-arc of (simId, mode)
HoldsNothingOf(simId, mode) ==
    /\ CountOf(traceGraphs, simId, mode) = 0
    /\ CountOf(traceArcs, simId, mode) = 0

\* the store holds a trace-graph of (simId, mode), every edge of a stored
\* trace-graph has its trace-arc and every stored trace-arc is an edge of a
\* stored trace-graph
HoldsAllOf(simId, mode) ==
    LET graphDocs == {d \in Docs(traceGraphs) : d.simId = simId /\ d.mode = mode}
        arcDocs == {d \in Docs(traceArcs) : d.simId = simId /\ d.mode = mode}
    IN  /\ graphDocs # {}
        /\ \A g \in graphDocs : \A e \in Range(g.edges) :
              \E a \in arcDocs : a.from = e[1] /\ a.to = e[2]
        /\ \A a \in arcDocs : \E g \in graphDocs : <<a.from, a.to>> \in Range(g.edges)

\* C7 as stated: there is no partial success; if any store operation of
\* saveToMongo fails, the store afterwards holds either all artifacts of a
\* run (the trace-graph and all of its trace-arcs) or none of them, never a
\* trace-graph without its trace-arcs.
C7_NoPartialSuccess ==
    (lastCall.op = "saveToMongo" /\ lastCall.panicked) =>
        \/ HoldsAllOf(lastCall.simId, lastCall.graph.Mode)
        \/ HoldsNothingOf(lastCall.simId, lastCall.graph.Mode)

(***************************************************************************)
(* Journey statistics and modal shares (main.go).                          *)
(*                                                                         *)
(* Meters and passengers are float64 sums of non-negative terms; the model *)
(* keeps them as naturals.  geo.Distance is the great-circle distance; the *)
(* model's Distance is the lattice distance of the sample points, which    *)
(* like it is symmetric and zero exactly for equal points.  A share is the *)
(* pair <<numerator, denominator>>.                                        *)
(***************************************************************************)
\* outcome of a call: a returned value, or a run-time panic
Ok(v) == [panicked |-> FALSE, value |-> v]
Panic(msg) == [panicked |-> TRUE, value |-> msg]

Abs(x) == IF x < 0 THEN -x ELSE x

Distance(p, q) == Abs(p[1] - q[1]) + Abs(p[2] - q[2])

JourneyStats(cm, rm, bm, wm, cp, rp, bp, w) ==
    [CarMeters |-> cm, RailMeters |-> rm, BusMeters |-> bm, WalkMeters |-> wm,
     CarPassengers |-> cp, RailPassengers |-> rp, BusPassengers |-> bp, Walkers |-> w]

\* &JourneyStats{}
ZeroStats == JourneyStats(0, 0, 0, 0, 0, 0, 0, 0)

IsEmpty(s) == s = ZeroStats

Add(s, other) ==
    JourneyStats(s.CarMeters + other.CarMeters, s.RailMeters + other.RailMeters,
                 s.BusMeters + other.BusMeters, s.WalkMeters + other.WalkMeters,
                 s.CarPassengers + other.CarPassengers,
                 s.RailPassengers + other.RailPassengers,
                 s.BusPassengers + other.BusPassengers, s.Walkers + other.Walkers)

\* mutant of pairStats: every counted pair adds a passenger
pairStatsAlwaysPax(fromElem, toElem) ==
    LET dist == Distance(toElem.Point, fromElem.Point)
    IN  IF fromElem.Mode # toElem.Mode THEN ZeroStats
        ELSE IF fromElem.Mode \in {"train", "gondola", "watercraft"}
        THEN JourneyStats(0, dist, 0, 0, 0, 1, 0, 0)
        ELSE IF fromElem.Mode = "bus" THEN JourneyStats(0, 0, dist, 0, 0, 0, 1, 0)
        ELSE IF fromElem.Mode = "car" THEN JourneyStats(dist, 0, 0, 0, 1, 0, 0, 0)
        ELSE IF fromElem.Mode = "walking" THEN JourneyStats(0, 0, 0, dist, 0, 0, 0, 1)
        ELSE ZeroStats

\* the switch on fromElem.Mode: the contribution of one consecutive pair
pairStats(fromElem, toElem) ==
    LET dist == Distance(toElem.Point, fromElem.Point)
        pax == IF fromElem.IsLegStart THEN 1 ELSE 0
    IN  IF fromElem.Mode # toElem.Mode THEN ZeroStats
        ELSE IF fromElem.Mode \in {"train", "gondola", "watercraft"}
        THEN JourneyStats(0, dist, 0, 0, 0, pax, 0, 0)
        ELSE IF fromElem.Mode = "bus" THEN JourneyStats(0, 0, dist, 0, 0, 0, pax, 0)
        ELSE IF fromElem.Mode = "car" THEN JourneyStats(dist, 0, 0, 0, pax, 0, 0, 0)
        ELSE IF fromElem.Mode = "walking" THEN JourneyStats(0, 0, 0, dist, 0, 0, 0, pax)
        ELSE ZeroStats

RECURSIVE traceStatsLoop(_, _, _)
\* the loop over trace.Trace[1:] from pair i on
traceStatsLoop(elems, i, stats) ==
    IF i >= Len(elems) THEN stats
    ELSE traceStatsLoop(elems, i + 1, Add(stats, pairStats(elems[i], elems[i + 1])))

\* trace.Trace[1:] of a slice of length 0 is out of range: the call panics
getTraceStats(tr) ==
    IF Len(tr.Trace) = 0 THEN Panic("slice bounds out of range [1:0]")
    ELSE Ok(traceStatsLoop(tr.Trace, 1, ZeroStats))

RECURSIVE getStatsLoop(_, _, _)
getStatsLoop(trs, i, stats) ==
    IF i > Len(trs) THEN Ok(stats)
    ELSE IF Len(trs[i].Trace) < 2 THEN getStatsLoop(trs, i + 1, stats)
    ELSE LET ts == getTraceStats(trs[i])
         IN  IF ts.panicked THEN ts
             ELSE getStatsLoop(trs, i + 1, Add(stats, ts.value))

getStats(trs) == getStatsLoop(trs, 1, ZeroStats)

Share(pm, total) == IF pm = 0 THEN <<0, 1>> ELSE <<pm, total>>

TransportShares(car, rail, bus, walk) == [Car |-> car, Rail |-> rail, Bus |-> bus, Walk |-> walk]

\* &TransportShares{}
ZeroShares == TransportShares(<<0, 1>>, <<0, 1>>, <<0, 1>>, <<0, 1>>)

\* meters x passengers of the four modes of a JourneyStats
PassengerMeters(s) ==
    [Car |-> s.CarMeters * s.CarPassengers, Rail |-> s.RailMeters * s.RailPassengers,
     Bus |-> s.BusMeters * s.BusPassengers, Walk |-> s.WalkMeters * s.Walkers]

TotalOf(pm) == pm.Car + pm.Rail + pm.Bus + pm.Walk

SharesOver(pm, total) ==
    TransportShares(Share(pm.Car, total), Share(pm.Rail, total),
                    Share(pm.Bus, total), Share(pm.Walk, total))

GetShares(s) ==
    LET pm == PassengerMeters(s)
        total == TotalOf(pm)
    IN  IF total = 0 THEN ZeroShares ELSE SharesOver(pm, total)
\* a selected option as the by-origin sinks use it: the H3 cell of its origin
\* and the trace extractTrace yields for it
SelectedOption(tile, tr) == [OriginTile |-> tile, Trace |-> tr]

RECURSIVE statsByOriginLoop(_, _, _)
\* the loop over the selected options: stats per origin tile, as a function
\* on the tiles seen so far
statsByOriginLoop(selected, i, stats) ==
    IF i > Len(selected) THEN Ok(stats)
    ELSE LET traceStats == getTraceStats(selected[i].Trace)
             tile == selected[i].OriginTile
             prev == IF tile \in DOMAIN stats THEN stats[tile] ELSE ZeroStats
         IN  IF traceStats.panicked THEN traceStats
             ELSE IF IsEmpty(traceStats.value)
             THEN statsByOriginLoop(selected, i + 1, stats)
             ELSE statsByOriginLoop(selected, i + 1,
                      [t \in DOMAIN stats \cup {tile} |->
                          IF t = tile THEN Add(prev, traceStats.value) ELSE stats[t]])

\* getModalShareByOrigin: the shares of each origin tile
modalShareByOrigin(selected) ==
    LET stats == statsByOriginLoop(selected, 1, <<>>)
    IN  IF stats.panicked THEN stats
        ELSE Ok([t \in DOMAIN stats.value |-> GetShares(stats.value[t])])

RECURSIVE SumOver(_, _)
SumOver(f, S) ==
    IF S = {} THEN 0
    ELSE LET x == CHOOSE y \in S : TRUE IN f[x] + SumOver(f, S \ {x})

\* the guard before the division by the global total
contributionTotalIsZero(total) == total = 0

\* getModalShareContributionByOrigin: each tile's passenger-meters over the
\* total of all tiles
modalShareContributionByOrigin(selected) ==
    LET stats == statsByOriginLoop(selected, 1, <<>>)
    IN  IF stats.panicked THEN stats
        ELSE LET tiles == DOMAIN stats.value
                 total == SumOver([t \in tiles |-> TotalOf(PassengerMeters(stats.value[t]))],
                                  tiles)
             IN  IF contributionTotalIsZero(total) THEN Panic("total is zero")
                 ELSE Ok([t \in tiles |-> SharesOver(PassengerMeters(stats.value[t]), total)])

(***************************************************************************)
(* SpecStats: one application of a statistics function to a trace or to a  *)
(* list of selected options.                                               *)
(***************************************************************************)
MaxStatLen == 3
MaxOptions == 2

StatModes == {"train", "gondola", "watercraft", "bus", "car", "walking", "bicycle"}

\* the element at position i lies at (i * i, 1): the distances of the
\* consecutive pairs differ from each other
StatPointAt(i) == <<i * i, 1>>

\* a trace of k elements with the modes and leg-start flags e
StatTrace(k, e) ==
    Trace("vc1", "opt1",
          [i \in 1..k |-> TraceElement(StatPointAt(i), i, e[i][1], e[i][2])])

\* sample traces of the options: empty, one element, a car leg, a rail leg,
\* a car pair that does not start a leg, a pair that changes mode
SampleTraces ==
    { Trace("vc1", "opt1", <<>>),
      Trace("vc1", "opt1", <<TraceElement(<<-1, 1>>, 1, "car", TRUE)>>),
      Trace("vc1", "opt1", <<TraceElement(<<-1, 1>>, 1, "car", TRUE),
                             TraceElement(<<1, 1>>, 2, "car", FALSE)>>),
      Trace("vc1", "opt1", <<TraceElement(<<-1, 1>>, 1, "train", TRUE),
                             TraceElement(<<1, 1>>, 2, "train", FALSE)>>),
      Trace("vc1", "opt1", <<TraceElement(<<-1, 1>>, 1, "car", FALSE),
                             TraceElement(<<1, 1>>, 2, "car", FALSE)>>),
      Trace("vc1", "opt1", <<TraceElement(<<-1, 1>>, 1, "car", TRUE),
                             TraceElement(<<1, 1>>, 2, "train", FALSE)>>) }

OriginTiles == {"t1", "t2"}

SampleOptions == {SelectedOption(t, tr) : t \in OriginTiles, tr \in SampleTraces}

\* the input is a trace of at most MaxStatLen elements
TraceInput ==
    \E k \in 0..MaxStatLen : \E e \in [1..k -> StatModes \X BOOLEAN] :
        args = [kind |-> "trace", trace |-> StatTrace(k, e)]

\* the input is a list of at most MaxOptions selected options
OptionsInput ==
    \E sel \in SeqsUpTo(SampleOptions, MaxOptions) :
        args = [kind |-> "options", selected |-> sel]

InitStats ==
    /\ fn = "none"
    /\ TraceInput \/ OptionsInput
    /\ ret = <<>>
    /\ TraceIdle /\ ParIdle /\ StoreIdle

Return(name, value) ==
    /\ fn = "none"
    /\ fn' = name
    /\ ret' = value
    /\ UNCHANGED <<args, traceVars, parVars, storeVars>>

TracesOf(selected) == [i \in 1..Len(selected) |-> selected[i].Trace]

CallGetTraceStats ==
    args.kind = "trace" /\ Return("getTraceStats", getTraceStats(args.trace))

CallGetStats ==
    args.kind = "options" /\ Return("getStats", getStats(TracesOf(args.selected)))

CallGetShares ==
    /\ args.kind = "options"
    /\ Return("GetShares", Ok(GetShares(getStats(TracesOf(args.selected)).value)))

CallModalShareByOrigin ==
    /\ args.kind = "options"
    /\ Return("getModalShareByOrigin", modalShareByOrigin(args.selected))

CallModalShareContributionByOrigin ==
    /\ args.kind = "options"
    /\ Return("getModalShareContributionByOrigin",
              modalShareContributionByOrigin(args.selected))

NextStats ==
    \/ CallGetTraceStats
    \/ CallGetStats
    \/ CallGetShares
    \/ CallModalShareByOrigin
    \/ CallModalShareContributionByOrigin

SpecStats == InitStats /\ [][NextStats]_vars
(***************************************************************************)
(* Claims about the statistics, checked under SpecStats.                   *)
(***************************************************************************)
IsShort(tr) == Len(tr.Trace) < 2

\* getTraceStats of a trace with fewer than two elements is the zero statistics
ShortTraceStatsAreZero ==
    (fn = "getTraceStats" /\ IsShort(args.trace)) =>
        ~ret.panicked /\ ret.value = ZeroStats

\* getStats is what it is without the traces of fewer than two elements
ShortTracesAddNothingToStats ==
    fn = "getStats" =>
        /\ ~ret.panicked
        /\ ret = getStats(SelectSeq(TracesOf(args.selected), LAMBDA tr : ~IsShort(tr)))

\* the by-origin shares are what they are without the options whose trace
\* has fewer than two elements
ShortTracesAddNothingByOrigin ==
    fn = "getModalShareByOrigin" =>
        /\ ~ret.panicked
        /\ ret = modalShareByOrigin(SelectSeq(args.selected, LAMBDA o : ~IsShort(o.Trace)))

\* C13 as stated: a trace with fewer than two elements (zero or one)
\* contributes zero to every statistic and causes no failure, in
\* getTraceStats, in getStats and in the by-origin sinks that call
\* getTraceStats directly on an extracted trace.
C13_ShortTraceContributesZero ==
    /\ ShortTraceStatsAreZero
    /\ ShortTracesAddNothingToStats
    /\ ShortTracesAddNothingByOrigin

\* the sum of meters x passengers over the selected options' tiles
GlobalTotal(selected) ==
    LET stats == statsByOriginLoop(selected, 1, <<>>).value
    IN  SumOver([t \in DOMAIN stats |-> TotalOf(PassengerMeters(stats[t]))], DOMAIN stats)

NoEmptyTrace(selected) == \A i \in 1..Len(selected) : Len(selected[i].Trace.Trace) > 0

\* GetShares of statistics whose own total is zero is the all-zero shares
ZeroTotalGivesZeroShares ==
    (fn = "GetShares" /\ TotalOf(PassengerMeters(getStats(TracesOf(args.selected)).value)) = 0)
        => ~ret.panicked /\ ret.value = ZeroShares

\* with a global total of zero the contribution shares are all zero
ZeroGlobalTotalGivesZeroShares ==
    (/\ fn = "getModalShareContributionByOrigin"
     /\ NoEmptyTrace(args.selected)
     /\ GlobalTotal(args.selected) = 0)
        => /\ ~ret.panicked
           /\ \A t \in DOMAIN ret.value : ret.value[t] = ZeroShares

\* C14 as stated: whenever the share denominator is 0, all shares are 0 and
\* no error is raised, both in JourneyStats.GetShares (own total zero) and
\* for the contribution shares normalised by the global total in
\* getModalShareContributionByOrigin.
C14_ZeroDenominatorGivesZeroShares ==
    /\ ZeroTotalGivesZeroShares
    /\ ZeroGlobalTotalGivesZeroShares
(***************************************************************************)
(* Option selection (getSelectedOption, traces.go; IsCar and WouldUseCar,  *)
(* dbscan.go).                                                             *)
(*                                                                         *)
(* An option is modelled by the modes of its journey's trips and by the    *)
(* journey's departure, arrival and their delays in seconds.  A nil        *)
(* pointer is <<>>, a non-nil one the one-element sequence of its target.  *)
(***************************************************************************)
Nil == <<>>
Ptr(x) == <<x>>
Deref(p) == p[1]

Journey(modes, dep, arr, depDelay, arrDelay) ==
    [Trips |-> modes, Departure |-> dep, Arrival |-> arr,
     DepartureDelay |-> depDelay, ArrivalDelay |-> arrDelay]

JourneyOption(id, journey, vc) == [RouteOptionId |-> id, Journey |-> journey, vcId |-> vc]

Vehicles(usage) == [Usage |-> usage]

Traveller(vehicles) == [Vehicles |-> vehicles]

TravellerResult(vc, traveller, options) ==
    [VcId |-> vc, Traveller |-> traveller, Options |-> options]

IsCar(r) == \E i \in 1..Len(r.Journey.Trips) : r.Journey.Trips[i] = "car"

\* mutant of WouldUseCar: every traveller would use a car
WouldUseCarAlways(t) == TRUE

WouldUseCar(t) == IF t.Vehicles.Usage = Nil THEN FALSE ELSE TRUE

\* arrival plus its delay minus departure plus its delay
adjustedDuration(option) ==
    LET dep == option.Journey.Departure +
               (IF option.Journey.DepartureDelay # Nil
                THEN Deref(option.Journey.DepartureDelay) ELSE 0)
        arr == option.Journey.Arrival +
               (IF option.Journey.ArrivalDelay # Nil
                THEN Deref(option.Journey.ArrivalDelay) ELSE 0)
    IN  arr - dep

RECURSIVE selectLoop(_, _, _, _, _)
\* the loop over result.Options from index i on, with the locals selected
\* (an index, 0 for nil) and duration
selectLoop(options, wouldUseCar, i, selected, duration) ==
    IF i > Len(options) THEN selected
    ELSE IF ~wouldUseCar /\ IsCar(options[i])
    THEN selectLoop(options, wouldUseCar, i + 1, selected, duration)
    ELSE LET dur == adjustedDuration(options[i])
         IN  IF selected = 0 \/ dur < duration
             THEN selectLoop(options, wouldUseCar, i + 1, i, dur)
             ELSE selectLoop(options, wouldUseCar, i + 1, selected, duration)

\* result.Traveller is a pointer: WouldUseCar on a nil traveller panics
getSelectedOption(res) ==
    IF res.Traveller = Nil THEN Panic("nil pointer dereference")
    ELSE LET selected == selectLoop(res.Options, WouldUseCar(Deref(res.Traveller)), 1, 0, 0)
         IN  IF selected = 0 THEN Ok(Nil)
             ELSE Ok(Ptr([res.Options[selected] EXCEPT !.vcId = res.VcId]))

(***************************************************************************)
(* SpecSelect: one application of getSelectedOption to a route result.     *)
(***************************************************************************)
TripModes == {<<"car">>, <<"bus">>, <<"car", "walking">>, <<"walking", "bus">>}

Journeys ==
    {Journey(m, 0, arr, dd, ad) :
        m \in TripModes, arr \in {10, 20}, dd \in {Nil, Ptr(5)}, ad \in {Nil, Ptr(15)}}

\* the option lists: the i-th option has the id i
OptionLists ==
    {[i \in 1..Len(js) |-> JourneyOption(i, js[i], "")] : js \in SeqsUpTo(Journeys, MaxOptions)}

Travellers == {Nil, Ptr(Traveller(Vehicles(Nil))), Ptr(Traveller(Vehicles(Ptr("daily"))))}

SelectInputs ==
    {[kind |-> "result", result |-> TravellerResult("vc1", t, os)] :
        t \in Travellers, os \in OptionLists}

InitSelect ==
    /\ fn = "none"
    /\ args \in SelectInputs
    /\ ret = <<>>
    /\ TraceIdle /\ ParIdle /\ StoreIdle

CallGetSelectedOption ==
    args.kind = "result" /\ Return("getSelectedOption", getSelectedOption(args.result))

NextSelect == CallGetSelectedOption

SpecSelect == InitSelect /\ [][NextSelect]_vars
(***************************************************************************)
(* Claims about getSelectedOption, checked under SpecSelect.               *)
(***************************************************************************)
SelectCalled == fn = "getSelectedOption" /\ args.result.Traveller # Nil

UsageIsNil == Deref(args.result.Traveller).Vehicles.Usage = Nil

HasCarLeg(o) == "car" \in Range(o.Journey.Trips)

CarOnly(o) == Len(o.Journey.Trips) >= 1 /\ Range(o.Journey.Trips) = {"car"}

\* what the call returns for the option at index i
Tagged(i) == Ptr([args.result.Options[i] EXCEPT !.vcId = args.result.VcId])

\* the call returns none when no index is eligible and otherwise an eligible
\* option of minimum delay-adjusted duration
SelectsMinimumAmong(eligible) ==
    /\ ~ret.panicked
    /\ Len(ret.value) <= 1
    /\ (eligible = {}) <=> (ret.value = Nil)
    /\ ret.value # Nil =>
          \E i \in eligible :
              /\ ret.value = Tagged(i)
              /\ \A j \in eligible :
                    adjustedDuration(args.result.Options[i])
                        <= adjustedDuration(args.result.Options[j])

\* C15: getSelectedOption returns at most one option per RouteResult: among
\* the eligible options (all when Vehicles.Usage is non-null, otherwise the
\* ones without a car leg) one of minimum delay-adjusted duration, and none
\* when no option is eligible; with Vehicles.Usage = nil and one car plus
\* one transit option it returns the transit option whatever the durations,
\* and with only the car option it returns none.
C15_SelectsMinimumEligible ==
    SelectCalled =>
        LET options == args.result.Options
            eligible == {i \in 1..Len(options) : ~UsageIsNil \/ ~HasCarLeg(options[i])}
        IN  /\ SelectsMinimumAmong(eligible)
            /\ (UsageIsNil /\ Len(options) = 2) =>
                  \A i, j \in 1..2 :
                      (CarOnly(options[i]) /\ ~HasCarLeg(options[j])) => ret.value = Tagged(j)
            /\ (UsageIsNil /\ Len(options) = 1 /\ CarOnly(options[1])) => ret.value = Nil

\* scenario S5 with the car option the faster one: the transit option is returned
C15_Witness ==
    /\ SelectCalled /\ UsageIsNil
    /\ Len(args.result.Options) = 2
    /\ CarOnly(args.result.Options[1])
    /\ ~HasCarLeg(args.result.Options[2])
    /\ adjustedDuration(args.result.Options[1]) < adjustedDuration(args.result.Options[2])
    /\ ret.value = Tagged(2)

\* C16 as stated: when the commuter does not own/use a car only car-only
\* options are excluded from selection; an option whose legs mix car with
\* other modes remains eligible and is selected if it has the minimum
\* delay-adjusted duration.
C16_MixedOptionsStayEligible ==
    (SelectCalled /\ UsageIsNil) =>
        SelectsMinimumAmong({i \in 1..Len(args.result.Options) :
                                ~CarOnly(args.result.Options[i])})
(***************************************************************************)
(* DBSCAN (dbscan.go).                                                     *)
(*                                                                         *)
(* A point is a GraphNode; its Name is its Id and DistanceTo is the        *)
(* squared planar distance, so epsilon bounds a squared distance.  The     *)
(* tree holds the points that are clustered.  KNN(point, k) returns the k  *)
(* nearest points of the tree; in every call of the program modelled here  *)
(* k is at least the number of points, so it returns all of them.          *)
(* A cluster is a map keyed by Name flattened in map order: the model      *)
(* keeps it as the set of its points.                                      *)
(***************************************************************************)
GraphNode(id, p) == [Id |-> id, Point |-> p]

DistanceTo(node, other) == DistanceSquared(node.Point, other.Point)

\* potNeigb is a neighbour of point
isNeighbour(point, potNeigb, epsilon) ==
    point.Id # potNeigb.Id /\ DistanceTo(potNeigb, point) <= epsilon

findNeighboursInTree(point, tree, epsilon) ==
    {potNeigb \in tree : isNeighbour(point, potNeigb, epsilon)}

findNeighbours(point, points, epsilon) ==
    {potNeigb \in points : isNeighbour(point, potNeigb, epsilon)}

\* the seed points that expandCluster finds unvisited and dense within the seed
newlyDense(seed, visited, minDensity, eps) ==
    {point \in seed :
        /\ point.Id \notin DOMAIN visited
        /\ Cardinality(findNeighbours(point, seed, eps)) + 1 >= minDensity}

\* the seed points that were visited before and not clustered
visitedUnclustered(seed, visited) ==
    {point \in seed : point.Id \in DOMAIN visited /\ ~visited[point.Id]}

\* expandCluster: the merged set and the visited map after the loop over the
\* seed.  What the loop does for one seed point depends on the seed and on
\* that point's own entry of visited only, so the order of the seed is
\* immaterial.
expandCluster(cluster, neighbours, visited, minDensity, eps) ==
    LET dense == newlyDense(neighbours, visited, minDensity, eps)
        unclustered == visitedUnclustered(neighbours, visited)
        marked == {point.Id : point \in dense \cup unclustered}
    IN  [merged |-> cluster
                    \cup UNION {findNeighbours(point, neighbours, eps) : point \in dense}
                    \cup unclustered,
         visited |-> [id \in DOMAIN visited \cup marked |->
                         IF id \in marked THEN TRUE ELSE visited[id]]]

\* visited[name] = value
SetVisited(visited, id, value) ==
    [x \in DOMAIN visited \cup {id} |-> IF x = id THEN value ELSE visited[x]]

RECURSIVE clusterLoop(_, _, _, _, _, _, _)
\* the loop over points from index i on, with the locals visited and clusters
clusterLoop(minDensity, epsilon, tree, points, i, visited, clusters) ==
    IF i > Len(points) THEN clusters
    ELSE LET point == points[i]
             neighbours == findNeighboursInTree(point, tree, epsilon)
         IN  IF Cardinality(neighbours) + 1 >= minDensity
             THEN LET e == expandCluster({point}, neighbours,
                                         SetVisited(visited, point.Id, TRUE),
                                         minDensity, epsilon)
                  IN  clusterLoop(minDensity, epsilon, tree, points, i + 1, e.visited,
                                  IF Cardinality(e.merged) >= minDensity
                                  THEN Append(clusters, e.merged) ELSE clusters)
             ELSE clusterLoop(minDensity, epsilon, tree, points, i + 1,
                              SetVisited(visited, point.Id, FALSE), clusters)

ClusterWithTree(minDensity, epsilon, tree, points) ==
    clusterLoop(minDensity, epsilon, tree, points, 1, <<>>, <<>>)

\* Cluster: the tree is built from the points themselves
Cluster(minDensity, epsilon, points) ==
    ClusterWithTree(minDensity, epsilon, Range(points), points)
(***************************************************************************)
(* SpecCluster: one application of Cluster to a slice of points.  The      *)
(* points lie on a line of the lattice; the i-th point of the slice has    *)
(* the Id i - 1.                                                           *)
(***************************************************************************)
MaxPoints == 4

ClusterPositions == {<<0, 0>>, <<1, 0>>, <<2, 0>>, <<3, 0>>}

PointSlices ==
    {[i \in 1..Len(ps) |-> GraphNode(i - 1, ps[i])] : ps \in SeqsUpTo(ClusterPositions, MaxPoints)}

ClusterInputs ==
    {[kind |-> "points", points |-> ps, minDensity |-> m, epsilon |-> e] :
        ps \in PointSlices, m \in {2, 3}, e \in {1, 4}}

InitCluster ==
    /\ fn = "none"
    /\ args \in ClusterInputs
    /\ ret = <<>>
    /\ TraceIdle /\ ParIdle /\ StoreIdle

CallCluster ==
    /\ args.kind = "points"
    /\ Return("Cluster", Ok(Cluster(args.minDensity, args.epsilon, args.points)))

NextCluster == CallCluster

SpecCluster == InitCluster /\ [][NextCluster]_vars

\* C20 as stated: in the result of Cluster / ClusterWithTree no point joins
\* two clusters; for any input points and any processing order the returned
\* clusters are pairwise disjoint.
C20_ClustersAreDisjoint ==
    fn = "Cluster" =>
        \A i, j \in 1..Len(ret.value) :
            i # j => ret.value[i] \cap ret.value[j] = {}
(***************************************************************************)
(* The traffic graph built by clustering (getGraph, reduceTraces,          *)
(* getNodeId) and the one built on the street graph (getStreetBasedGraph). *)
(*                                                                         *)
(* An option is given by the trace extractTrace yields for it.  Lengths    *)
(* are in units of 0.00001 degrees.  A node position of the graph is a     *)
(* pair of fractions <<numerator, denominator>> in lowest terms, so that   *)
(* a centroid is kept exactly.                                             *)
(***************************************************************************)
RECURSIVE splitLoop(_, _, _, _, _)
\* the loop of splitTraceByMode from element i on, with the locals
\* outTraces and outTrace
splitLoop(tr, mode, i, outTraces, outTrace) ==
    IF i > Len(tr.Trace)
    THEN IF Len(outTrace) > 0
         THEN Append(outTraces, Trace(tr.VcId, tr.RouteOptionId, outTrace))
         ELSE outTraces
    ELSE IF tr.Trace[i].Mode # mode
    THEN IF Len(outTrace) > 0
         THEN splitLoop(tr, mode, i + 1,
                        Append(outTraces, Trace(tr.VcId, tr.RouteOptionId, outTrace)), <<>>)
         ELSE splitLoop(tr, mode, i + 1, outTraces, outTrace)
    ELSE splitLoop(tr, mode, i + 1, outTraces, Append(outTrace, tr.Trace[i]))

\* mutant of splitTraceByMode: one trace of all the elements of the mode
splitTraceByModeJoined(tr, mode) ==
    LET joined == SelectSeq(tr.Trace, LAMBDA e : e.Mode = mode)
    IN  IF joined = <<>> THEN <<>> ELSE <<Trace(tr.VcId, tr.RouteOptionId, joined)>>

splitTraceByMode(tr, mode) == splitLoop(tr, mode, 1, <<>>, <<>>)

RECURSIVE splitTracesByMode(_, _)
splitTracesByMode(trs, mode) ==
    IF trs = <<>> THEN <<>>
    ELSE splitTraceByMode(Head(trs), mode) \o splitTracesByMode(Tail(trs), mode)

\* const epsilon = 0.0001 of getNodeId
epsilon == 10

\* getNodeId: the id of the node nearest to the point if it is within
\* epsilon, as <<id>>, and <<>> for "not ok".  The sample positions leave no
\* point at the same distance from two nodes, so the nearest node is unique.
getNodeId(nodes, point) ==
    IF nodes = <<>> THEN <<>>
    ELSE LET nearestNode == CHOOSE n \in Range(nodes) :
                 \A m \in Range(nodes) :
                     DistanceSquared(point, n.Point) <= DistanceSquared(point, m.Point)
         IN  IF DistanceSquared(point, nearestNode.Point) > epsilon * epsilon
             THEN <<>>
             ELSE <<nearestNode.Id>>

RECURSIVE reduceElems(_, _, _, _)
\* the loop over the elements of one sub-trace: the nodes and the outTrace
reduceElems(elems, i, nodes, outTrace) ==
    IF i > Len(elems) THEN [nodes |-> nodes, outTrace |-> outTrace]
    ELSE LET found == getNodeId(nodes, elems[i].Point)
             lastPointId == Len(nodes)
         IN  IF found = <<>>
             THEN reduceElems(elems, i + 1,
                              Append(nodes, GraphNode(lastPointId, elems[i].Point)),
                              Append(outTrace, lastPointId))
             ELSE reduceElems(elems, i + 1, nodes, Append(outTrace, found[1]))

RECURSIVE reduceSplit(_, _, _, _)
\* the loop over the sub-traces of one option
reduceSplit(split, j, nodes, outTraces) ==
    IF j > Len(split) THEN [Nodes |-> nodes, Traces |-> outTraces]
    ELSE LET r == reduceElems(split[j].Trace, 1, nodes, <<>>)
         IN  reduceSplit(split, j + 1, r.nodes, Append(outTraces, r.outTrace))

RECURSIVE reduceOptions(_, _, _, _, _)
\* the loop over the options
reduceOptions(options, mode, i, nodes, outTraces) ==
    IF i > Len(options) THEN [Nodes |-> nodes, Traces |-> outTraces]
    ELSE LET r == reduceSplit(splitTraceByMode(options[i], mode), 1, nodes, outTraces)
         IN  reduceOptions(options, mode, i + 1, r.Nodes, r.Traces)

\* reduceTraces: the nodes (the tree holds the same nodes) and the traces
\* as sequences of node ids
reduceTraces(options, mode) == reduceOptions(options, mode, 1, <<>>, <<>>)
\* mutant of canonicalPair: the pair is stored as it comes
canonicalPairAsIs(from, to) == <<from, to>>

\* if fromCluster > toCluster { fromCluster, toCluster = toCluster, fromCluster }
canonicalPair(from, to) == IF from > to THEN <<to, from>> ELSE <<from, to>>

\* edges[from][to] = append(edges[from][to], visitor)
appendVisitor(edges, from, to, visitor) ==
    [edges EXCEPT ![from] =
        [t \in DOMAIN edges[from] \cup {to} |->
            IF t = to
            THEN Append(IF to \in DOMAIN edges[from] THEN edges[from][to] ELSE <<>>, visitor)
            ELSE edges[from][t]]]

RECURSIVE pairsLoop(_, _, _)
\* the loop over the consecutive pairs of one trace of node keys, from pair i
\* on; edges[fromCluster] of a key past the end of the slice panics
pairsLoop(keys, i, edges) ==
    IF i >= Len(keys) THEN Ok(edges)
    ELSE IF keys[i] = keys[i + 1] THEN pairsLoop(keys, i + 1, edges)
    ELSE LET pair == canonicalPair(keys[i], keys[i + 1])
         IN  IF pair[1] \notin DOMAIN edges THEN Panic("index out of range")
             ELSE pairsLoop(keys, i + 1,
                            appendVisitor(edges, pair[1], pair[2], ArcVisitor("", "")))

RECURSIVE edgesLoop(_, _, _)
\* the loop over the traces; trace[:len(trace)-1] of an empty trace panics
edgesLoop(keyTraces, j, edges) ==
    IF j > Len(keyTraces) THEN Ok(edges)
    ELSE IF Len(keyTraces[j]) = 0 THEN Panic("slice bounds out of range [:-1]")
    ELSE LET filled == pairsLoop(keyTraces[j], 1, edges)
         IN  IF filled.panicked THEN filled
             ELSE edgesLoop(keyTraces, j + 1, filled.value)

\* edges := make([]map[uint32]Arc, len(nodes)) and the loop that fills it
buildEdges(keyTraces, nodeCount) ==
    edgesLoop(keyTraces, 1, [n \in 0..(nodeCount - 1) |-> NoArcs])

RECURSIVE GCD(_, _)
GCD(a, b) == IF b = 0 THEN a ELSE GCD(b, a % b)

\* sum / n, exactly
Fraction(sum, n) ==
    LET g == GCD(Abs(sum), n) IN <<sum \div g, n \div g>>

PositionOf(p) == <<Fraction(p[1], 1), Fraction(p[2], 1)>>

RECURSIVE SumCoord(_, _)
SumCoord(cluster, c) ==
    IF cluster = {} THEN 0
    ELSE LET node == CHOOSE n \in cluster : TRUE
         IN  node.Point[c] + SumCoord(cluster \ {node}, c)

\* the centroid of a cluster
centroid(cluster) ==
    <<Fraction(SumCoord(cluster, 1), Cardinality(cluster)),
      Fraction(SumCoord(cluster, 2), Cardinality(cluster))>>

\* ClusterWithTree(2, 0.00001, 50, ...): minDensity and epsilon of getGraph
clusterMinDensity == 2
clusterEpsilon == 100000

\* revKeys after the loop over the clusters: the last cluster holding the node
clusterKeys(clusters) ==
    [id \in {n.Id : n \in UNION Range(clusters)} |->
        CHOOSE i \in 0..(Len(clusters) - 1) :
            /\ \E n \in clusters[i + 1] : n.Id = id
            /\ \A k \in (i + 1)..(Len(clusters) - 1) : \A n \in clusters[k + 1] : n.Id # id]

RECURSIVE addUnclustered(_, _, _, _)
\* mutant of addUnclustered: the added node's key is one past its index
addUnclusteredPastEnd(traceNodes, i, revKeys, nodes) ==
    IF i > Len(traceNodes) THEN [revKeys |-> revKeys, nodes |-> nodes]
    ELSE IF (i - 1) \in DOMAIN revKeys THEN addUnclustered(traceNodes, i + 1, revKeys, nodes)
    ELSE addUnclustered(traceNodes, i + 1,
                        [id \in DOMAIN revKeys \cup {i - 1} |->
                            IF id = i - 1 THEN Len(nodes) + 1 ELSE revKeys[id]],
                        Append(nodes, PositionOf(traceNodes[i].Point)))

\* the loop adding the nodes that are in no cluster: revKeys and nodes
addUnclustered(traceNodes, i, revKeys, nodes) ==
    IF i > Len(traceNodes) THEN [revKeys |-> revKeys, nodes |-> nodes]
    ELSE IF (i - 1) \in DOMAIN revKeys THEN addUnclustered(traceNodes, i + 1, revKeys, nodes)
    ELSE addUnclustered(traceNodes, i + 1,
                        [id \in DOMAIN revKeys \cup {i - 1} |->
                            IF id = i - 1 THEN Len(nodes) ELSE revKeys[id]],
                        Append(nodes, PositionOf(traceNodes[i].Point)))

\* a slice as the function on its indices 0..len-1
Slice(s) == [n \in 0..(Len(s) - 1) |-> s[n + 1]]

\* the centroids and added nodes of getGraph, and the traces as sequences
\* of the keys revKeys gives their nodes
graphKeys(options, mode) ==
    LET reduced == reduceTraces(options, mode)
        clusters == ClusterWithTree(clusterMinDensity, clusterEpsilon,
                                    Range(reduced.Nodes), reduced.Nodes)
        centroids == [i \in 1..Len(clusters) |-> centroid(clusters[i])]
        keyed == addUnclustered(reduced.Nodes, 1, clusterKeys(clusters), centroids)
    IN  [nodes |-> keyed.nodes,
         clusters |-> clusters,
         revKeys |-> keyed.revKeys,
         keyTraces |-> [j \in 1..Len(reduced.Traces) |->
                           [i \in 1..Len(reduced.Traces[j]) |->
                               keyed.revKeys[reduced.Traces[j][i]]]]]

getGraph(options, mode) ==
    LET keys == graphKeys(options, mode)
        edges == buildEdges(keys.keyTraces, Len(keys.nodes))
    IN  IF edges.panicked THEN edges
        ELSE Ok(Graph(mode, Slice(keys.nodes), edges.value))

\* the permutations of a finite set, as sequences
Orderings(S) ==
    {f \in [1..Cardinality(S) -> S] : \A i, j \in 1..Cardinality(S) : i # j => f[i] # f[j]}

\* the results matchTraces can return for the traces: for each trace one of
\* the id sequences getNodeOptionTrace can yield
matchings(trs, sg) ==
    {m \in [1..Len(trs) -> UNION {getNodeOptionTrace(trs[j], sg) : j \in 1..Len(trs)}] :
        \A j \in 1..Len(trs) : m[j] \in getNodeOptionTrace(trs[j], sg)}

\* the ids of the occurringNodes map
occurringNodes(matched) == UNION {Range(matched[j]) : j \in 1..Len(matched)}

\* getStreetBasedGraph for one result of matchTraces and one iteration order
\* of the occurringNodes map; streetGraph.Nodes[noNode] is out of range
getStreetBasedGraph(options, mode, sg, matched, order) ==
    IF noNode \in occurringNodes(matched) THEN Panic("index out of range")
    ELSE LET revKeys == [id \in Range(order) |-> (CHOOSE i \in 1..Len(order) : order[i] = id) - 1]
             nodes == [i \in 1..Len(order) |-> PositionOf(sg.Nodes[order[i]].Point)]
             keyTraces == [j \in 1..Len(matched) |->
                              [i \in 1..Len(matched[j]) |-> revKeys[matched[j][i]]]]
             edges == buildEdges(keyTraces, Len(nodes))
         IN  IF edges.panicked THEN edges
             ELSE Ok(Graph(mode, Slice(nodes), edges.value))

(***************************************************************************)
(* SpecGraph: one application of a graph builder to a list of options.     *)
(* The options' traces hold MaxElems elements in all; the positions are    *)
(* 0, 7, 16 and 1000 units east of the origin.  The graph is built for the *)
(* mode car.                                                               *)
(***************************************************************************)
MaxElems == 3

GraphPoints == {<<0, 0>>, <<7, 0>>, <<16, 0>>, <<1000, 0>>}

\* the element sequences of exactly k elements
\* an element of the graph's mode at each position, and one of another mode:
\* the builders drop the elements of other modes without looking at them
GraphElems == [p \in GraphPoints |-> "car"] @@ (<<0, 1>> :> "walking")

GraphElemSeqs(k) ==
    {[i \in 1..k |-> TraceElement(ps[i], i, GraphElems[ps[i]], i = 1)] :
        ps \in [1..k -> DOMAIN GraphElems]}

RECURSIVE ElemSeqLists(_)
\* the lists of non-empty element sequences holding at most n elements in all
ElemSeqLists(n) ==
    {<<>>} \cup UNION {{<<s>> \o rest : s \in GraphElemSeqs(k), rest \in ElemSeqLists(n - k)} :
                          k \in 1..n}

VcIds == <<"vcA", "vcB", "vcC", "vcD", "vcE", "vcF">>
OptionIds == <<"o1", "o2", "o3", "o4", "o5", "o6">>

\* the i-th option of a list belongs to the i-th commuter
GraphInputs ==
    {[kind |-> "options", mode |-> "car",
      options |-> [i \in 1..Len(l) |-> Trace(VcIds[i], OptionIds[i], l[i])]] :
        l \in ElemSeqLists(MaxElems)}

InitGraph ==
    /\ fn = "none"
    /\ args \in GraphInputs
    /\ ret = <<>>
    /\ TraceIdle /\ ParIdle /\ StoreIdle

CallGetGraph ==
    /\ args.kind = "options"
    /\ Return("getGraph", getGraph(args.options, args.mode))

CallGetStreetBasedGraph ==
    /\ args.kind = "options"
    /\ \E matched \in matchings(splitTracesByMode(args.options, args.mode), StreetGraph) :
          \E order \in Orderings(occurringNodes(matched)) :
              Return("getStreetBasedGraph",
                     getStreetBasedGraph(args.options, args.mode, StreetGraph, matched, order))

NextGraph == CallGetGraph \/ CallGetStreetBasedGraph

SpecGraph == InitGraph /\ [][NextGraph]_vars

(***************************************************************************)
(* Claims about the traffic graph, checked under SpecGraph.                *)
(***************************************************************************)
GraphBuilt == fn \in {"getGraph", "getStreetBasedGraph"} /\ ~ret.panicked

\* C17: in the traffic graph built by either variant (getGraph,
\* getStreetBasedGraph) every stored edge (u, v) satisfies u < v: edges are
\* stored lower id first and no self-loop is stored, for any input traces.
C17_EdgesLowerIdFirst ==
    GraphBuilt => \A e \in EdgesOf(ret.value) : e[1] < e[2]

\* a graph of getGraph whose only edge (0, 1) was emitted twice, once in
\* each direction, by a trace that also has a pair within one node
C17_Witness ==
    /\ fn = "getGraph" /\ ~ret.panicked
    /\ Len(args.options) = 1
    /\ PointsOf(args.options[1].Trace) = << <<0, 0>>, <<1000, 0>>, <<0, 0>> >>
    /\ EdgesOf(ret.value) = {<<0, 1>>}
    /\ Len(ret.value.Edges[0][1]) = 2

\* a sequence as the bag of its elements
BagOfSeq(s) == [x \in Range(s) |-> Cardinality({i \in 1..Len(s) : s[i] = x})]

\* the tags of the input options
OptionTags == {ArcVisitor(args.options[i].VcId, args.options[i].RouteOptionId) :
                  i \in 1..Len(args.options)}

\* the tags of the consecutive pairs of the sub-traces that getGraph maps
\* onto the edge (u, v), one per pair
EmissionTags(u, v) ==
    LET subs == splitTracesByMode(args.options, args.mode)
        keys == graphKeys(args.options, args.mode).keyTraces
        pairs == {<<j, i>> \in (1..Len(keys)) \X (1..MaxElems) :
                     /\ i < Len(keys[j])
                     /\ {keys[j][i], keys[j][i + 1]} = {u, v}}
        tagOf(pr) == ArcVisitor(subs[pr[1]].VcId, subs[pr[1]].RouteOptionId)
    IN  [t \in {tagOf(pr) : pr \in pairs} |-> Cardinality({pr \in pairs : tagOf(pr) = t})]

\* C18 as stated: for every edge of the traffic graph its visitor list is
\* exactly the multiset of (commuter id, option id) tags of the consecutive
\* trace pairs that map onto that edge: one ArcVisitor per emission, each
\* carrying the commuter id and option id of the trace that produced it.
C18_VisitorsCarryTraceTags ==
    /\ GraphBuilt =>
          \A e \in EdgesOf(ret.value) :
              Range(ret.value.Edges[e[1]][e[2]]) \subseteq OptionTags
    /\ (fn = "getGraph" /\ ~ret.panicked) =>
          \A e \in EdgesOf(ret.value) :
              BagOfSeq(ret.value.Edges[e[1]][e[2]]) = EmissionTags(e[1], e[2])
\* a graph up to the numbering of its nodes: the bag of its nodes' positions
\* and the bag of its edges, each edge as the positions of its two ends with
\* the bag of its visitors
UpToRenumbering(graph) ==
    LET ids == DOMAIN graph.Nodes
        edgeOf(e) == [ends |-> {graph.Nodes[e[1]], graph.Nodes[e[2]]},
                      visitors |-> BagOfSeq(graph.Edges[e[1]][e[2]])]
        edges == EdgesOf(graph)
    IN  [Mode |-> graph.Mode,
         Nodes |-> [p \in {graph.Nodes[n] : n \in ids} |->
                       Cardinality({n \in ids : graph.Nodes[n] = p})],
         Edges |-> [d \in {edgeOf(e) : e \in edges} |->
                       Cardinality({e \in edges : edgeOf(e) = d})]]

\* the list of options in the order perm
Permuted(options, perm) == [i \in 1..Len(options) |-> options[perm[i]]]

\* the results getStreetBasedGraph can give for a list of options
StreetOutcomes(options, mode) ==
    LET ms == matchings(splitTracesByMode(options, mode), StreetGraph)
    IN  UNION {{getStreetBasedGraph(options, mode, StreetGraph, m, order) :
                   order \in Orderings(occurringNodes(m))} : m \in ms}

\* getGraph gives the same graph, up to the numbering of its nodes, for
\* every order of the options
GetGraphOrderIndependent ==
    (fn = "getGraph" /\ ~ret.panicked) =>
        \A perm \in Orderings(1..Len(args.options)) :
            LET other == getGraph(Permuted(args.options, perm), args.mode)
            IN  /\ ~other.panicked
                /\ UpToRenumbering(other.value) = UpToRenumbering(ret.value)

\* every graph getStreetBasedGraph gives is, up to the numbering of its
\* nodes, one it can give for every other order of the options
StreetGraphOrderIndependent ==
    (fn = "getStreetBasedGraph" /\ ~ret.panicked) =>
        \A perm \in Orderings(1..Len(args.options)) :
            \E other \in StreetOutcomes(Permuted(args.options, perm), args.mode) :
                /\ ~other.panicked
                /\ UpToRenumbering(other.value) = UpToRenumbering(ret.value)

\* C19 as stated: the graph builder is order-independent.  Permuting the
\* order in which the options are fed changes neither the set of node
\* positions nor the edges with their visitor multisets, up to a renumbering
\* of the node ids, for getGraph and for getStreetBasedGraph.
C19_BuilderOrderIndependent ==
    GetGraphOrderIndependent /\ StreetGraphOrderIndependent

(***************************************************************************)
(* The leg-start flag through filterTrace, checked under SpecTrace.        *)
(***************************************************************************)
\* the input index of output element k (Time is the input index), and 0 for
\* "before the first"
InputIndexOf(k) == IF k = 0 THEN 0 ELSE result.Trace[k].Time

\* some input element after the previous kept one, up to and including the
\* kept one itself, is a leg-start
LegStartSincePreviousKept(k) ==
    \E i \in (InputIndexOf(k - 1) + 1)..InputIndexOf(k) : trace.Trace[i].IsLegStart

\* C25: filterTrace carries leg-starts forward: a kept element is a leg-start
\* in the output iff it was one in the input or some element dropped since
\* the previous kept element was one; so after a dropped leg-start the next
\* kept element, if any, is a leg-start in the output.
C25_FilterCarriesLegStart ==
    called = "filterTrace" =>
        \A k \in 1..Len(result.Trace) :
            result.Trace[k].IsLegStart <=> LegStartSincePreviousKept(k)

\* a call that drops a leg-start and keeps the next element, which was no
\* leg-start in the input and is one in the output
C25_Witness ==
    /\ called = "filterTrace"
    /\ \E k \in 1..Len(result.Trace) :
          /\ result.Trace[k].IsLegStart
          /\ ~trace.Trace[InputIndexOf(k)].IsLegStart
          /\ InputIndexOf(k) - 1 > InputIndexOf(k - 1)
          /\ trace.Trace[InputIndexOf(k) - 1].IsLegStart

(***************************************************************************)
(* The pairs of getTraceStats, checked under SpecStats.                    *)
(***************************************************************************)
\* the category a mode is counted in, "none" for a mode that is not counted
CategoryOf(mode) ==
    IF mode \in {"train", "gondola", "watercraft"} THEN "rail"
    ELSE IF mode \in {"bus", "car", "walking"} THEN mode
    ELSE "none"

\* the consecutive pairs (i, i + 1) of the trace whose two elements have the
\* same mode, of the category cat
CountedPairs(tr, cat) ==
    {i \in 1..(Len(tr.Trace) - 1) :
        /\ tr.Trace[i].Mode = tr.Trace[i + 1].Mode
        /\ CategoryOf(tr.Trace[i].Mode) = cat}

MetersOf(tr, cat) ==
    SumOver([i \in CountedPairs(tr, cat) |-> Distance(tr.Trace[i + 1].Point, tr.Trace[i].Point)],
            CountedPairs(tr, cat))

PassengersOf(tr, cat) ==
    Cardinality({i \in CountedPairs(tr, cat) : tr.Trace[i].IsLegStart})

TraceStatsCalled == fn = "getTraceStats" /\ ~ret.panicked

\* C26: getTraceStats iterates the consecutive pairs (from, to) of a trace:
\* a pair whose modes differ contributes nothing; a same-mode pair adds its
\* distance to the meters of the mode's category (train, gondola and
\* watercraft count as rail) and one passenger iff from is a leg-start; so
\* the passengers are no more than the leg-starts, and a pair of an unknown
\* mode changes no counter.
C26_TraceStatsSumsSameModePairs ==
    TraceStatsCalled =>
        LET tr == args.trace
        IN  /\ ret.value = JourneyStats(MetersOf(tr, "car"), MetersOf(tr, "rail"),
                                        MetersOf(tr, "bus"), MetersOf(tr, "walking"),
                                        PassengersOf(tr, "car"), PassengersOf(tr, "rail"),
                                        PassengersOf(tr, "bus"), PassengersOf(tr, "walking"))
            /\ ret.value.CarPassengers + ret.value.RailPassengers
                  + ret.value.BusPassengers + ret.value.Walkers
               <= Cardinality({i \in 1..Len(tr.Trace) : tr.Trace[i].IsLegStart})

\* a trace of three elements: a pair that changes mode, then a rail pair
\* that does not start at a leg-start: meters are added, no passenger
C26_Witness ==
    /\ TraceStatsCalled
    /\ Len(args.trace.Trace) = 3
    /\ args.trace.Trace[1].Mode = "car"
    /\ args.trace.Trace[2].Mode = "gondola" /\ ~args.trace.Trace[2].IsLegStart
    /\ args.trace.Trace[3].Mode = "gondola"
    /\ ret.value.RailMeters > 0
    /\ ret.value.RailPassengers = 0
    /\ ret.value.CarMeters = 0

(***************************************************************************)
(* Density-based clustering, checked under SpecCluster.                    *)
(***************************************************************************)
\* the other points within epsilon of the point
EpsilonNeighbours(point) == findNeighbours(point, Range(args.points), args.epsilon)

\* the point has at least minDensity - 1 other points within epsilon
IsCore(point) == Cardinality(EpsilonNeighbours(point)) >= args.minDensity - 1

\* C28 as stated: Cluster is standard density-based clustering: every point
\* that has at least minDensity - 1 other points within epsilon is a member
\* of a returned cluster together with its epsilon-neighbours; in
\* particular, with minDensity = 2, two points within epsilon of each other
\* end up in one returned cluster.
C28_CorePointsClusterWithNeighbours ==
    fn = "Cluster" =>
        \A point \in Range(args.points) :
            IsCore(point) =>
                \E i \in 1..Len(ret.value) :
                    {point} \cup EpsilonNeighbours(point) \subseteq ret.value[i]

(***************************************************************************)
(* SpecSplit: one application of splitTraceByMode to a trace of at most    *)
(* MaxSplitLen elements and a mode.                                        *)
(***************************************************************************)
MaxSplitLen == 4

SplitModes == {"car", "walking", "bus"}

InitSplit ==
    /\ fn = "none"
    /\ \E k \in 0..MaxSplitLen : \E e \in [1..k -> SplitModes \X BOOLEAN] :
          \E mode \in SplitModes :
              args = [kind |-> "split", mode |-> mode,
                      trace |-> Trace("vcA", "o1",
                                      [i \in 1..k |-> TraceElement(StatPointAt(i), i,
                                                                   e[i][1], e[i][2])])]
    /\ ret = <<>>
    /\ TraceIdle /\ ParIdle /\ StoreIdle

CallSplitTraceByMode ==
    /\ args.kind = "split"
    /\ Return("splitTraceByMode", Ok(splitTraceByMode(args.trace, args.mode)))

NextSplit == CallSplitTraceByMode

SpecSplit == InitSplit /\ [][NextSplit]_vars

RECURSIVE Concatenation(_)
\* the elements of a list of traces, one trace after the other
Concatenation(trs) ==
    IF trs = <<>> THEN <<>> ELSE Head(trs).Trace \o Concatenation(Tail(trs))

\* the elements of the run are consecutive elements of the input (Time is
\* the input index)
IsRun(elems) == \A i \in 1..(Len(elems) - 1) : elems[i + 1].Time = elems[i].Time + 1

\* the input has no element of the mode right before or right after the run
IsMaximal(elems) ==
    LET first == elems[1].Time
        last == elems[Len(elems)].Time
    IN  /\ first > 1 => args.trace.Trace[first - 1].Mode # args.mode
        /\ last < Len(args.trace.Trace) => args.trace.Trace[last + 1].Mode # args.mode

\* C27: splitTraceByMode(trace, mode) returns the maximal runs of
\* consecutive elements whose mode equals mode, in trace order: every
\* returned trace is non-empty, holds only elements of that mode, keeps the
\* commuter id and the option id, and the concatenation of the returned
\* traces is exactly the subsequence of the elements of that mode.
C27_SplitGivesMaximalRuns ==
    fn = "splitTraceByMode" =>
        /\ \A j \in 1..Len(ret.value) :
              LET sub == ret.value[j]
              IN  /\ sub.Trace # <<>>
                  /\ \A i \in 1..Len(sub.Trace) : sub.Trace[i].Mode = args.mode
                  /\ sub.VcId = args.trace.VcId
                  /\ sub.RouteOptionId = args.trace.RouteOptionId
                  /\ IsRun(sub.Trace)
                  /\ IsMaximal(sub.Trace)
        /\ Concatenation(ret.value)
              = SelectSeq(args.trace.Trace, LAMBDA e : e.Mode = args.mode)

\* a trace whose elements of the mode form two runs, split by an element of
\* another mode, and which ends with an element of another mode
C27_Witness ==
    /\ fn = "splitTraceByMode"
    /\ Len(args.trace.Trace) = 4
    /\ Len(ret.value) = 2
    /\ Len(ret.value[1].Trace) = 1 /\ Len(ret.value[2].Trace) = 1
    /\ args.trace.Trace[4].Mode # args.mode

(***************************************************************************)
(* DecimateByIrrelevantArcs (part_003).                                    *)
(*                                                                         *)
(* The function ends after the loop that fills newNodes and remap: it has  *)
(* no rewrite of the edges and no return statement.  The model gives the   *)
(* locals at that point.  The test "flow.edges != 2" of the keep loop is   *)
(* read as the test of the number of edges.                                *)
(***************************************************************************)
\* vertexFlow; visitorSet is a map that starts nil
vertexFlow(isRelevant, visitorSet, edges) ==
    [isRelevant |-> isRelevant, visitorSet |-> visitorSet, edges |-> edges]

\* visitorSetEqual: the two maps hold the same visitors
visitorSetEqual(a, b) == Cardinality(a) = Cardinality(b) /\ \A visitor \in a : visitor \in b

\* the vertexFlow of vertex v after the edge to other with the visitor set flow
flowAfterEdge(vf, other, flow) ==
    vertexFlow(IF vf.visitorSet # Nil /\ visitorSetEqual(Deref(vf.visitorSet), flow)
               THEN FALSE ELSE vf.isRelevant,
               Ptr(flow), Append(vf.edges, other))

RECURSIVE flowsLoop(_, _, _, _)
\* the loop over graph.Edges, in the order the maps are iterated, from the
\* k-th edge on
flowsLoop(graph, order, k, vertexFlows) ==
    IF k > Len(order) THEN vertexFlows
    ELSE LET i == order[k][1]
             j == order[k][2]
             arcs == graph.Edges[i][j]
             flow == Range(arcs)
         IN  IF Len(arcs) = 0 THEN flowsLoop(graph, order, k + 1, vertexFlows)
             ELSE flowsLoop(graph, order, k + 1,
                            [v \in DOMAIN vertexFlows |->
                                IF v = i THEN flowAfterEdge(vertexFlows[v], j, flow)
                                ELSE IF v = j THEN flowAfterEdge(vertexFlows[v], i, flow)
                                ELSE vertexFlows[v]])

\* the condition of the keep loop
isKept(flow) == flow.isRelevant \/ Len(flow.edges) # 2

RECURSIVE keepLoop(_, _, _, _, _)
\* the loop over vertexFlows from vertex i on, with the locals newNodes and remap
keepLoop(graph, vertexFlows, i, newNodes, remap) ==
    IF i \notin DOMAIN vertexFlows THEN [newNodes |-> newNodes, remap |-> remap]
    ELSE IF isKept(vertexFlows[i])
    THEN keepLoop(graph, vertexFlows, i + 1, Append(newNodes, graph.Nodes[i]),
                  [v \in DOMAIN remap \cup {i} |->
                      IF v = i THEN Len(newNodes) ELSE remap[v]])
    ELSE keepLoop(graph, vertexFlows, i + 1, newNodes, remap)

\* the locals of DecimateByIrrelevantArcs where the function ends; newEdges
\* is the empty slice it was made as
DecimateByIrrelevantArcs(graph, order) ==
    LET vertexFlows == flowsLoop(graph, order, 1,
                                 [v \in DOMAIN graph.Nodes |-> vertexFlow(TRUE, Nil, <<>>)])
        kept == keepLoop(graph, vertexFlows, 0, <<>>, <<>>)
    IN  [vertexFlows |-> vertexFlows, newNodes |-> Slice(kept.newNodes),
         newEdges |-> <<>>, remap |-> kept.remap]

(***************************************************************************)
(* SpecDecimate: one application of DecimateByIrrelevantArcs to a graph of *)
(* at most MaxNodes nodes.  Every pair from < to has no edge or an edge    *)
(* with one of four visitor lists, two of which are equal as sets.         *)
(***************************************************************************)
MaxNodes == 3

VisitorLists ==
    { <<ArcVisitor("vcA", "o1")>>, <<ArcVisitor("vcB", "o2")>>,
      <<ArcVisitor("vcA", "o1"), ArcVisitor("vcB", "o2")>>,
      <<ArcVisitor("vcB", "o2"), ArcVisitor("vcA", "o1"), ArcVisitor("vcB", "o2")>> }

\* the graph of n nodes with the visitor lists e; an empty list is no edge
GraphWith(n, e) ==
    Graph("car", [v \in 0..(n - 1) |-> <<v, 0>>],
          [f \in 0..(n - 1) |->
              [t \in {x \in 0..(n - 1) : f < x /\ e[<<f, x>>] # <<>>} |-> e[<<f, t>>]]])

InitDecimate ==
    /\ fn = "none"
    /\ \E n \in 1..MaxNodes :
          \E e \in [{p \in (0..(n - 1)) \X (0..(n - 1)) : p[1] < p[2]}
                       -> VisitorLists \cup {<<>>}] :
              args = [kind |-> "graph", graph |-> GraphWith(n, e)]
    /\ ret = <<>>
    /\ TraceIdle /\ ParIdle /\ StoreIdle

CallDecimateByIrrelevantArcs ==
    /\ args.kind = "graph"
    /\ \E order \in arcOrders(args.graph) :
          Return("DecimateByIrrelevantArcs", Ok(DecimateByIrrelevantArcs(args.graph, order)))

NextDecimate == CallDecimateByIrrelevantArcs

SpecDecimate == InitDecimate /\ [][NextDecimate]_vars

\* the edges of the input graph at vertex v
IncidentEdges(v) == {e \in EdgesOf(args.graph) : v \in {e[1], e[2]}}

VisitorSetOf(e) == Range(args.graph.Edges[e[1]][e[2]])

\* degree exactly 2, and the visitor sets of the two edges are equal as sets
Irrelevant(v) ==
    /\ Cardinality(IncidentEdges(v)) = 2
    /\ \A e1, e2 \in IncidentEdges(v) : VisitorSetOf(e1) = VisitorSetOf(e2)

Decimated == fn = "DecimateByIrrelevantArcs"

\* exactly the irrelevant vertices are removed, the others are kept in order
RemovesExactlyIrrelevant ==
    Decimated =>
        LET keptIds == {v \in DOMAIN args.graph.Nodes : ~Irrelevant(v)}
        IN  /\ DOMAIN ret.value.remap = keptIds
            /\ \A v \in keptIds :
                  /\ ret.value.remap[v] = Cardinality({u \in keptIds : u < v})
                  /\ ret.value.newNodes[ret.value.remap[v]] = args.graph.Nodes[v]
            /\ DOMAIN ret.value.newNodes = 0..(Cardinality(keptIds) - 1)

\* the two edges of a removed vertex whose neighbours are kept are fused
\* into one edge of the result between the neighbours, with the shared
\* visitor set
FusesEdgesOfRemoved ==
    Decimated =>
        \A v \in DOMAIN args.graph.Nodes :
            LET ends == (UNION {{e[1], e[2]} : e \in IncidentEdges(v)}) \ {v}
            IN  (Irrelevant(v) /\ ends \subseteq DOMAIN ret.value.remap) =>
                    \E f \in DOMAIN ret.value.newEdges :
                        \E t \in DOMAIN ret.value.newEdges[f] :
                            /\ {f, t} = {ret.value.remap[u] : u \in ends}
                            /\ \A e \in IncidentEdges(v) :
                                  Range(ret.value.newEdges[f][t]) = VisitorSetOf(e)

\* C29 as stated: DecimateByIrrelevantArcs classifies a vertex as
\* irrelevant iff its degree is exactly 2 and the visitor sets of its two
\* incident edges are equal as sets; exactly the irrelevant vertices are
\* removed, all other vertices are kept, and the two edges of a removed
\* vertex are fused into one edge carrying the shared visitor set.
C29_DecimateRemovesAndFuses == RemovesExactlyIrrelevant /\ FusesEdgesOfRemoved

(***************************************************************************)
(* extractTrace (traces.go).                                               *)
(*                                                                         *)
(* A leg (fptf.Trip) has a polyline, stopovers, an origin and a            *)
(* destination.  The polyline is given by what polyline.DecodeCoords makes *)
(* of it: "" for the empty string, an error, or its coordinates (at least  *)
(* one for a string that decodes).  A location is Nil or a pointer to a    *)
(* point.  Times are whole time units.                                     *)
(***************************************************************************)
NoPolyline == [empty |-> TRUE, err |-> FALSE, coords |-> <<>>]
Undecodable == [empty |-> FALSE, err |-> TRUE, coords |-> <<>>]
Decodes(coords) == [empty |-> FALSE, err |-> FALSE, coords |-> coords]

\* fptf.Stopover: the location of its station and its departure time
Stopover(loc, departure) == [Location |-> loc, Departure |-> departure]

\* fptf.Trip
Trip(mode, polyline, stopovers, originLoc, destLoc, departure, arrival) ==
    [Mode |-> mode, Polyline |-> polyline, Stopovers |-> stopovers,
     Origin |-> originLoc, Destination |-> destLoc,
     Departure |-> departure, Arrival |-> arrival]

\* the elements of a polyline leg; dt is a time.Duration, an integer
polylineElems(leg) ==
    LET legTrace == leg.Polyline.coords
        dt == (leg.Arrival - leg.Departure) \div Len(legTrace)
    IN  [i \in 1..Len(legTrace) |->
            TraceElement(legTrace[i], leg.Departure + (i - 1) * dt, leg.Mode, i = 1)]

\* the elements of a leg without stopovers
originDestElems(leg) ==
    IF leg.Origin # Nil /\ leg.Destination # Nil
    THEN << TraceElement(Deref(leg.Origin), leg.Departure, leg.Mode, TRUE),
            TraceElement(Deref(leg.Destination), leg.Arrival, leg.Mode, FALSE) >>
    ELSE <<>>

\* IsLegStart: i == 0 of the loop over the stopovers (i is 1-based here)
isFirstStopover(leg, i) == i = 1

RECURSIVE stopoverElems(_, _, _)
\* the loop over leg.Stopovers from stopover i on
stopoverElems(leg, i, out) ==
    IF i > Len(leg.Stopovers) THEN out
    ELSE LET stopover == leg.Stopovers[i]
         IN  IF stopover.Location = Nil THEN stopoverElems(leg, i + 1, out)
             ELSE stopoverElems(leg, i + 1,
                      Append(out, TraceElement(Deref(stopover.Location), stopover.Departure,
                                               leg.Mode, isFirstStopover(leg, i))))

\* the elements one iteration of the loop over the legs appends
legElems(leg) ==
    IF ~leg.Polyline.empty /\ ~leg.Polyline.err THEN polylineElems(leg)
    ELSE IF Len(leg.Stopovers) = 0 THEN originDestElems(leg)
    ELSE stopoverElems(leg, 1, <<>>)

RECURSIVE extractLoop(_, _, _)
extractLoop(legs, k, out) ==
    IF k > Len(legs) THEN out ELSE extractLoop(legs, k + 1, out \o legElems(legs[k]))

\* RouteOption with the fields extractTrace reads
TripOption(id, vc, legs) == [RouteOptionId |-> id, vcId |-> vc, Journey |-> [Trips |-> legs]]

extractTrace(option) ==
    Trace(option.vcId, option.RouteOptionId, extractLoop(option.Journey.Trips, 1, <<>>))

(***************************************************************************)
(* SpecExtract: one application of extractTrace to an option of at most    *)
(* MaxLegs legs, each with at most MaxStopovers stopovers.                 *)
(***************************************************************************)
MaxLegs == 2
MaxStopovers == 2

Locations == {Nil, Ptr(<<1, 1>>)}

StopoverLists ==
    UNION {[1..n -> {Stopover(loc, 3) : loc \in Locations}] : n \in 1..MaxStopovers}

\* the legs: with or without a polyline that decodes, and with stopovers or
\* with an origin and a destination
LegShapes ==
    {Trip("bus", polyline, stopovers, Nil, Nil, 0, 6) :
        polyline \in {NoPolyline, Undecodable, Decodes(<< <<1, 1>>, <<3, 1>> >>)},
        stopovers \in StopoverLists}
    \cup {Trip("walking", polyline, <<>>, originLoc, destLoc, 0, 6) :
            polyline \in {NoPolyline, Undecodable, Decodes(<< <<1, 1>>, <<3, 1>> >>)},
            originLoc \in Locations, destLoc \in Locations}

InitExtract ==
    /\ fn = "none"
    /\ \E n \in 0..MaxLegs : \E legs \in [1..n -> LegShapes] :
          args = [kind |-> "option", option |-> TripOption("o1", "vcA", legs)]
    /\ ret = <<>>
    /\ TraceIdle /\ ParIdle /\ StoreIdle

CallExtractTrace ==
    /\ args.kind = "option"
    /\ Return("extractTrace", Ok(extractTrace(args.option)))

NextExtract == CallExtractTrace

SpecExtract == InitExtract /\ [][NextExtract]_vars

\* the number of elements emitted for the legs before leg k
RECURSIVE EmittedBefore(_)
EmittedBefore(k) ==
    IF k = 1 THEN 0
    ELSE EmittedBefore(k - 1) + Len(legElems(args.option.Journey.Trips[k - 1]))

\* the elements of the output that leg k emitted
ElemsOfLeg(k) ==
    SubSeq(ret.value.Trace, EmittedBefore(k) + 1, EmittedBefore(k + 1))

\* C21 as stated: in every trace produced by extractTrace the first element
\* emitted for each leg has IsLegStart = true and no other element of that
\* leg has it, for polyline legs, stopover legs (also when leading stopovers
\* have no station location) and origin/destination legs.
C21_FirstElementOfLegIsLegStart ==
    fn = "extractTrace" =>
        \A k \in 1..Len(args.option.Journey.Trips) :
            \A i \in 1..Len(ElemsOfLeg(k)) : ElemsOfLeg(k)[i].IsLegStart <=> i = 1

(***************************************************************************)
(* matchTrace (part_001): stitching the snapped ids with shortest paths.   *)
(*                                                                         *)
(* dGraph is the worker's dijkstra.Graph; getStreetGraph adds every edge   *)
(* as two arcs, one in each direction.  dGraph.Shortest is library code:   *)
(* it returns a path of least weight from src to dest, or an error when    *)
(* there is none.  For src = dest the model allows both the path of the    *)
(* one vertex and the error.                                               *)
(***************************************************************************)
\* a dijkstra.Graph: the vertices 0..3; 0 - 1 and 1 - 2 of weight 1, 0 - 2 of
\* weight 3, and 3 without arcs
DGraph ==
    [Verticies |-> 0..3,
     Arcs |-> (<<0, 1>> :> 1) @@ (<<1, 0>> :> 1) @@ (<<1, 2>> :> 1) @@ (<<2, 1>> :> 1)
              @@ (<<0, 2>> :> 3) @@ (<<2, 0>> :> 3)]

\* the paths of the graph from src to dest that visit no vertex twice
PathsBetween(g, src, dest) ==
    UNION {{p \in [1..n -> g.Verticies] :
               /\ p[1] = src /\ p[n] = dest
               /\ \A i, j \in 1..n : i # j => p[i] # p[j]
               /\ \A i \in 1..(n - 1) : <<p[i], p[i + 1]>> \in DOMAIN g.Arcs} :
           n \in 2..Cardinality(g.Verticies)}

RECURSIVE WeightOf(_, _)
WeightOf(g, p) ==
    IF Len(p) < 2 THEN 0 ELSE g.Arcs[<<p[1], p[2]>>] + WeightOf(g, Tail(p))

\* BestPath and error of dGraph.Shortest
BestPath(path) == [err |-> FALSE, Path |-> path]
ErrNoPath == [err |-> TRUE, Path |-> <<>>]

\* the results dGraph.Shortest(src, dest) can give
Shortest(g, src, dest) ==
    IF src = dest THEN {BestPath(<<src>>), ErrNoPath}
    ELSE LET paths == PathsBetween(g, src, dest)
         IN  IF paths = {} THEN {ErrNoPath}
             ELSE {BestPath(p) : p \in {q \in paths :
                                           \A r \in paths : WeightOf(g, q) <= WeightOf(g, r)}}

\* the library's answers as a table, one result for each pair of vertices;
\* between two different vertices of DGraph there is at most one path of
\* least weight, and src = dest has the same kind of answer for every vertex
ShortestTables ==
    {[p \in DGraph.Verticies \X DGraph.Verticies |->
         IF p[1] = p[2]
         THEN (IF selfErr THEN ErrNoPath ELSE BestPath(<<p[1]>>))
         ELSE CHOOSE r \in Shortest(DGraph, p[1], p[2]) : TRUE] : selfErr \in BOOLEAN}

\* mutant of pathToAppend: the first node of the path is never removed
pathToAppendWhole(path, matchedTrace) == path

\* path = path[1:] when something was matched already
pathToAppend(path, matchedTrace) ==
    IF Len(matchedTrace) > 0 THEN Tail(path) ELSE path

\* one query of the loop, kept for the claims: its two ends, the library's
\* result and the nodes appended for it
Query(from, to, found, appended) ==
    [from |-> from, to |-> to, found |-> found, appended |-> appended]

RECURSIVE matchLoop(_, _, _, _, _, _)
\* the loop over nodeOptionTrace from element i on, with the locals lastNode
\* and matchedTrace, and the queries made so far
matchLoop(nodeOptionTrace, shortest, i, lastNode, matchedTrace, queries) ==
    IF i > Len(nodeOptionTrace) THEN [matchedTrace |-> matchedTrace, queries |-> queries]
    ELSE LET node == nodeOptionTrace[i]
         IN  IF node = noNode
             THEN matchLoop(nodeOptionTrace, shortest, i + 1, lastNode, matchedTrace, queries)
             ELSE IF lastNode = noNode
             THEN matchLoop(nodeOptionTrace, shortest, i + 1, node, matchedTrace, queries)
             ELSE LET found == shortest[<<lastNode, node>>]
                      path == IF found.err THEN <<lastNode, node>> ELSE found.Path
                      appended == pathToAppend(path, matchedTrace)
                  IN  matchLoop(nodeOptionTrace, shortest, i + 1, lastNode,
                                matchedTrace \o appended,
                                Append(queries, Query(lastNode, node, found, appended)))

matchTrace(nodeOptionTrace, shortest) ==
    matchLoop(nodeOptionTrace, shortest, 1, noNode, <<>>, <<>>).matchedTrace

\* the queries matchTrace makes, in order
queriesOf(nodeOptionTrace, shortest) ==
    matchLoop(nodeOptionTrace, shortest, 1, noNode, <<>>, <<>>).queries

(***************************************************************************)
(* SpecMatch: one application of matchTrace to a snapped trace of at most  *)
(* MaxIds ids, each a vertex of DGraph or the sentinel.                    *)
(***************************************************************************)
MaxIds == 4

InitMatch ==
    /\ fn = "none"
    /\ \E n \in 0..MaxIds : \E ids \in [1..n -> DGraph.Verticies \cup {noNode}] :
          \E shortest \in ShortestTables :
              args = [kind |-> "ids", nodeOptionTrace |-> ids, shortest |-> shortest]
    /\ ret = <<>>
    /\ TraceIdle /\ ParIdle /\ StoreIdle

CallMatchTrace ==
    /\ args.kind = "ids"
    /\ Return("matchTrace", Ok(matchTrace(args.nodeOptionTrace, args.shortest)))

NextMatch == CallMatchTrace

SpecMatch == InitMatch /\ [][NextMatch]_vars

(***************************************************************************)
(* Claims about matchTrace, checked under SpecMatch.                       *)
(***************************************************************************)
MatchCalled == fn = "matchTrace" /\ ~ret.panicked

\* the snapped ids of the input that are not the sentinel, in trace order
SnappedIds == SelectSeq(args.nodeOptionTrace, LAMBDA id : id # noNode)

MatchQueries == queriesOf(args.nodeOptionTrace, args.shortest)

RECURSIVE Collapse(_)
\* the sequence without the elements that repeat the one before them
Collapse(s) ==
    IF Len(s) < 2 THEN s
    ELSE IF s[1] = s[2] THEN Collapse(Tail(s))
    ELSE <<s[1]>> \o Collapse(Tail(s))

\* C22 as stated: matchTrace stitches consecutive snapped nodes: for each
\* next non-sentinel id node it runs the shortest-path query from last to
\* node and then updates last = node, so every query starts at the previous
\* non-sentinel snapped id, and the output is a walk through the snapped ids
\* in trace order.
C22_QueriesStartAtPreviousSnappedId ==
    MatchCalled =>
        /\ Len(SnappedIds) > 0 => Len(MatchQueries) = Len(SnappedIds) - 1
        /\ \A k \in 1..Len(MatchQueries) :
              /\ MatchQueries[k].from = SnappedIds[k]
              /\ MatchQueries[k].to = SnappedIds[k + 1]
        /\ Len(SnappedIds) > 1 => IsSubsequence(Collapse(SnappedIds), ret.value)

RECURSIVE AppendedBefore(_)
\* the nodes appended for the queries before query k
AppendedBefore(k) ==
    IF k = 1 THEN <<>> ELSE AppendedBefore(k - 1) \o MatchQueries[k - 1].appended

\* the graph has no path between the two ends of the query
NoPathFor(q) == q.from # q.to /\ PathsBetween(DGraph, q.from, q.to) = {}

\* the path or bridge of the query, without its first node when the output
\* is not empty
ExpectedAppended(k) ==
    LET q == MatchQueries[k]
        path == IF q.found.err THEN <<q.from, q.to>> ELSE q.found.Path
    IN  IF AppendedBefore(k) # <<>> THEN Tail(path) ELSE path

\* C23: when no path exists between the two snapped nodes of a query,
\* matchTrace raises no error and appends the degenerate bridge
\* [last, node]; whenever the output is already non-empty the first node of
\* the appended path or bridge is omitted; and the sentinel id never
\* appears in the output.
C23_NoPathGivesBridge ==
    fn = "matchTrace" =>
        /\ ~ret.panicked
        /\ noNode \notin Range(ret.value)
        /\ \A k \in 1..Len(MatchQueries) :
              /\ NoPathFor(MatchQueries[k]) => MatchQueries[k].found.err
              /\ MatchQueries[k].appended = ExpectedAppended(k)
        /\ ret.value = AppendedBefore(Len(MatchQueries) + 1)

\* a call whose second query finds no path: with the output non-empty, the
\* bridge is appended without its first node
C23_Witness ==
    /\ MatchCalled
    /\ noNode \in Range(args.nodeOptionTrace)
    /\ Len(MatchQueries) >= 2
    /\ NoPathFor(MatchQueries[2])
    /\ MatchQueries[2].appended = <<MatchQueries[2].to>>
    /\ ret.value[Len(ret.value)] = MatchQueries[Len(MatchQueries)].to

(***************************************************************************)
(* SpecPipeline: the stages of getStreetBasedGraph (main.go), one action   *)
(* for each call it makes: getTraces, splitTracesByMode, matchTraces, and  *)
(* the rest of the function.  fn is the last call made and ret holds the   *)
(* locals traces, matched and the graph returned.  An option is given by   *)
(* the trace extractTrace yields for it; the street graph has the          *)
(* vertices and arcs of DGraph, at 0, 10, 20 and 1000 units east of the    *)
(* origin, and NodeTree holds its nodes.                                   *)
(***************************************************************************)
LineStreetGraph ==
    LET at == (0 :> <<0, 0>>) @@ (1 :> <<10, 0>>) @@ (2 :> <<20, 0>>) @@ (3 :> <<1000, 0>>)
    IN  [Nodes |-> [id \in DGraph.Verticies |-> StreetGraphNode(id, at[id])],
         NodeTree |-> {[kind |-> "node", node |-> StreetGraphNode(id, at[id]), Point |-> at[id]] :
                          id \in DGraph.Verticies}]

MaxPipeLen == 3

\* the elements of the short traces: a car element near the nodes 0, 1 and
\* 2, and a walking element
PipeElems == {<<<<0, 0>>, "car">>, <<<<11, 0>>, "car">>, <<<<20, 0>>, "car">>,
              <<<<0, 0>>, "walking">>}

InitPipeline ==
    /\ fn = "none"
    /\ \E k \in 0..MaxPipeLen : \E e \in [1..k -> PipeElems] :
          args = [kind |-> "pipeline", mode |-> "car",
                  options |-> << Trace("vcA", "o1",
                                       [i \in 1..k |-> TraceElement(e[i][1], i, e[i][2], i = 1)]) >>]
    /\ ret = <<>>
    /\ TraceIdle /\ ParIdle /\ StoreIdle

PipelineStep(from, to, locals) ==
    /\ args.kind = "pipeline"
    /\ fn = from
    /\ fn' = to
    /\ ret' = locals
    /\ UNCHANGED <<args, traceVars, parVars, storeVars>>

\* traces := getTraces(options)
StepGetTraces ==
    PipelineStep("none", "getTraces",
                 [calls |-> <<"getTraces">>, traces |-> args.options])

\* traces = splitTracesByMode(traces, mode)
StepSplitTracesByMode ==
    PipelineStep("getTraces", "splitTracesByMode",
                 [calls |-> Append(ret.calls, "splitTracesByMode"),
                  traces |-> splitTracesByMode(ret.traces, args.mode)])

\* matched := matchTraces(traces, streetGraph, threadCount)
StepMatchTraces ==
    /\ args.kind = "pipeline" /\ fn = "splitTracesByMode"
    /\ \E matched \in matchings(ret.traces, LineStreetGraph) :
          PipelineStep("splitTracesByMode", "matchTraces",
                       [calls |-> ret.calls \o <<"getStreetGraph", "matchTraces">>,
                        traces |-> ret.traces, matched |-> matched])

\* the nodes and edges of the graph, and the return
StepBuildGraph ==
    /\ args.kind = "pipeline" /\ fn = "matchTraces"
    /\ \E order \in Orderings(occurringNodes(ret.matched)) :
          PipelineStep("matchTraces", "getStreetBasedGraph",
                       [calls |-> ret.calls,
                        traces |-> ret.traces, matched |-> ret.matched,
                        graph |-> getStreetBasedGraph(args.options, args.mode, LineStreetGraph,
                                                      ret.matched, order)])

NextPipeline ==
    \/ StepGetTraces
    \/ StepSplitTracesByMode
    \/ StepMatchTraces
    \/ StepBuildGraph

SpecPipeline == InitPipeline /\ [][NextPipeline]_vars

\* the stitched traces of a trace: its snapped ids joined by shortest paths
StitchedOf(tr) ==
    {matchTrace(snapped, shortest) :
        snapped \in getNodeOptionTrace(tr, LineStreetGraph), shortest \in ShortestTables}

Matched == args.kind = "pipeline" /\ fn \in {"matchTraces", "getStreetBasedGraph"}

\* downSampleTraces was called after the split and before matchTraces
MatchedAfterDownsample ==
    Matched =>
        \E i, j, k \in 1..Len(ret.calls) :
            /\ i < j /\ j < k
            /\ ret.calls[i] = "splitTracesByMode"
            /\ ret.calls[j] = "downSampleTraces"
            /\ ret.calls[k] = "matchTraces"

\* the traces handed to matchTraces have at most 100 non-leg-start elements
MatchedWithinTarget ==
    Matched => \A j \in 1..Len(ret.traces) : Len(NonLegStarts(ret.traces[j].Trace)) <= 100

\* the matched traces are the stitched ones
MatchedIsStitched ==
    Matched => \A j \in 1..Len(ret.traces) : ret.matched[j] \in StitchedOf(ret.traces[j])

\* C24 as stated: getStreetBasedGraph processes every trace in the order
\* extract, split by mode, downsample to at most 100 non-leg-start elements,
\* map-match (snap and stitch by shortest paths on the worker's own
\* Dijkstra copy): no trace is matched before it has been downsampled, and
\* every matched trace is the stitched one.
C24_MatchedAfterDownsampleAndStitched ==
    MatchedAfterDownsample /\ MatchedWithinTarget /\ MatchedIsStitched

(***************************************************************************)
(* SpecReduce: the reduced-trace variant on one option of at most          *)
(* MaxReduceLen elements.  The car positions are 0, 16, 32 and 1000 units  *)
(* east of the origin: the first three are further apart than getNodeId's  *)
(* epsilon and within the clustering distance of each other, the last is   *)
(* far from all.  A walking element cuts the option into sub-traces.       *)
(***************************************************************************)
MaxReduceLen == 4

ReduceElems == {<<<<0, 0>>, "car">>, <<<<16, 0>>, "car">>, <<<<32, 0>>, "car">>,
                <<<<1000, 0>>, "car">>, <<<<0, 1>>, "walking">>}

InitReduce ==
    /\ fn = "none"
    /\ \E k \in 0..MaxReduceLen : \E e \in [1..k -> ReduceElems] :
          args = [kind |-> "reduce", mode |-> "car",
                  options |-> << Trace("vcA", "o1",
                                       [i \in 1..k |-> TraceElement(e[i][1], i, e[i][2], i = 1)]) >>]
    /\ ret = <<>>
    /\ TraceIdle /\ ParIdle /\ StoreIdle

CallReduceTraces ==
    /\ args.kind = "reduce"
    /\ Return("reduceTraces", reduceTraces(args.options, args.mode))

CallGetGraphReduced ==
    /\ args.kind = "reduce"
    /\ Return("getGraph", getGraph(args.options, args.mode))

NextReduce == CallReduceTraces \/ CallGetGraphReduced

SpecReduce == InitReduce /\ [][NextReduce]_vars

\* the node with id i is the i-th entry of the node list (from 0)
DenseIds(nodes) == \A i \in 1..Len(nodes) : nodes[i].Id = i - 1

\* every id of the reduced traces is the id of a node
IdsAreNodes(reduced) ==
    \A j \in 1..Len(reduced.Traces) : \A i \in 1..Len(reduced.Traces[j]) :
        reduced.Traces[j][i] \in 0..(Len(reduced.Nodes) - 1)

\* every id of a trace has a key, and the key is an index of the output nodes
KeysAreOutputNodes(reduced, keys) ==
    \A j \in 1..Len(reduced.Traces) : \A i \in 1..Len(reduced.Traces[j]) :
        /\ reduced.Traces[j][i] \in DOMAIN keys.revKeys
        /\ keys.revKeys[reduced.Traces[j][i]] \in 0..(Len(keys.nodes) - 1)

\* the key of a node is its cluster's index or the index of the node added
\* for it alone
KeyIsCentroidOrSingleton(reduced, keys) ==
    \A id \in DOMAIN keys.revKeys :
        \/ /\ keys.revKeys[id] < Len(keys.clusters)
           /\ \E n \in keys.clusters[keys.revKeys[id] + 1] : n.Id = id
        \/ /\ keys.revKeys[id] >= Len(keys.clusters)
           /\ \A c \in Range(keys.clusters) : \A n \in c : n.Id # id
           /\ keys.nodes[keys.revKeys[id] + 1] = PositionOf(reduced.Nodes[id + 1].Point)

\* C30: in the reduced-trace variant the node ids are dense (the node with
\* id i is the i-th entry of the node list); after clustering every id
\* occurring in a trace has one key, an index below the number of output
\* nodes that is its cluster's centroid or its own pass-through node; every
\* trace reaching the edge loop is non-empty; and getGraph does not panic
\* on an index or a slice bound.
C30_ReducedIdsAndKeysInRange ==
    /\ (args.kind = "reduce" /\ fn = "reduceTraces") =>
           /\ DenseIds(ret.Nodes)
           /\ IdsAreNodes(ret)
           /\ \A j \in 1..Len(ret.Traces) : Len(ret.Traces[j]) > 0
    /\ (args.kind = "reduce" /\ fn = "getGraph") =>
           LET reduced == reduceTraces(args.options, args.mode)
               keys == graphKeys(args.options, args.mode)
           IN  /\ KeysAreOutputNodes(reduced, keys)
               /\ KeyIsCentroidOrSingleton(reduced, keys)
               /\ ~ret.panicked
               /\ DOMAIN ret.value.Nodes = 0..(Len(keys.nodes) - 1)
               /\ DOMAIN ret.value.Edges = 0..(Len(keys.nodes) - 1)

\* getGraph has returned a graph with a centroid, a pass-through node and an
\* edge between the two, built from two sub-traces
C30_Witness ==
    /\ args.kind = "reduce" /\ fn = "getGraph"
    /\ ~ret.panicked
    /\ LET reduced == reduceTraces(args.options, args.mode)
           keys == graphKeys(args.options, args.mode)
       IN  /\ Len(keys.clusters) > 0
           /\ Len(keys.nodes) > Len(keys.clusters)
           /\ \E from \in DOMAIN ret.value.Edges : \E to \in DOMAIN ret.value.Edges[from] :
                 from < Len(keys.clusters) /\ to >= Len(keys.clusters)
====
